---------------------------- MODULE Spec2Model ----------------------------
(***************************************************************************)
(* Agent/skill recommendation engine of workspace-init-mcp.                *)
(*                                                                         *)
(* Strings that the code inspects character by character (tags, tech       *)
(* keywords, categories, names, descriptions, tech-stack items, the user   *)
(* intent) are sequences of one-character strings, so that toLowerCase     *)
(* and String.prototype.includes are computed rather than assumed.  A      *)
(* character outside ASCII is written "U+XXXX".  Identifiers that are only *)
(* compared for equality (id, project types) are plain strings.            *)
(***************************************************************************)
EXTENDS Integers, Sequences, FiniteSets, TLC

(***************************************************************************)
(* Registry data                                                           *)
(***************************************************************************)
AGENT_REGISTRY ==
  <<
  [ id |-> "plan",
    name |-> <<"P","l","a","n"," ","M","o","d","e">>,
    description |-> <<"S","t","r","a","t","e","g","i","c"," ","p","l","a","n","n","i","n","g"," ","a","n","d"," ","a","r","c","h","i","t","e","c","t","u","r","e"," ","a","s","s","i","s","t","a","n","t"," ","f","o","c","u","s","e","d"," ","o","n"," ","t","h","o","u","g","h","t","f","u","l"," ","a","n","a","l","y","s","i","s"," ","b","e","f","o","r","e"," ","i","m","p","l","e","m","e","n","t","a","t","i","o","n">>,
    categories |-> << <<"p","l","a","n","n","i","n","g">> >>,
    tags |-> << <<"p","l","a","n","n","i","n","g">>, <<"s","t","r","a","t","e","g","y">>, <<"a","n","a","l","y","s","i","s">>, <<"t","h","i","n","k","-","f","i","r","s","t">> >>,
    relevantProjectTypes |-> <<"*">>,
    techKeywords |-> <<  >>,
    priority |-> 1 ],
  [ id |-> "planner",
    name |-> <<"P","l","a","n","n","e","r">>,
    description |-> <<"T","a","s","k"," ","p","l","a","n","n","i","n","g"," ","a","n","d"," ","b","r","e","a","k","d","o","w","n"," ","a","s","s","i","s","t","a","n","t">>,
    categories |-> << <<"p","l","a","n","n","i","n","g">> >>,
    tags |-> << <<"p","l","a","n","n","i","n","g">>, <<"t","a","s","k","-","b","r","e","a","k","d","o","w","n">>, <<"w","o","r","k","f","l","o","w">> >>,
    relevantProjectTypes |-> <<"*">>,
    techKeywords |-> <<  >>,
    priority |-> 1 ],
  [ id |-> "task-planner",
    name |-> <<"T","a","s","k"," ","P","l","a","n","n","e","r">>,
    description |-> <<"D","e","t","a","i","l","e","d"," ","t","a","s","k"," ","p","l","a","n","n","i","n","g"," ","w","i","t","h"," ","d","e","p","e","n","d","e","n","c","y"," ","t","r","a","c","k","i","n","g">>,
    categories |-> << <<"p","l","a","n","n","i","n","g">> >>,
    tags |-> << <<"p","l","a","n","n","i","n","g">>, <<"t","a","s","k","s">>, <<"d","e","p","e","n","d","e","n","c","i","e","s">> >>,
    relevantProjectTypes |-> <<"*">>,
    techKeywords |-> <<  >>,
    priority |-> 2 ],
  [ id |-> "context-architect",
    name |-> <<"C","o","n","t","e","x","t"," ","A","r","c","h","i","t","e","c","t">>,
    description |-> <<"P","l","a","n","s"," ","a","n","d"," ","e","x","e","c","u","t","e","s"," ","m","u","l","t","i","-","f","i","l","e"," ","c","h","a","n","g","e","s"," ","b","y"," ","i","d","e","n","t","i","f","y","i","n","g"," ","r","e","l","e","v","a","n","t"," ","c","o","n","t","e","x","t"," ","a","n","d"," ","d","e","p","e","n","d","e","n","c","i","e","s">>,
    categories |-> << <<"a","r","c","h","i","t","e","c","t","u","r","e">>, <<"p","l","a","n","n","i","n","g">> >>,
    tags |-> << <<"a","r","c","h","i","t","e","c","t","u","r","e">>, <<"c","o","n","t","e","x","t","-","m","a","p">>, <<"d","e","p","e","n","d","e","n","c","i","e","s">>, <<"m","u","l","t","i","-","f","i","l","e">> >>,
    relevantProjectTypes |-> <<"*">>,
    techKeywords |-> <<  >>,
    priority |-> 1 ],
  [ id |-> "repo-architect",
    name |-> <<"R","e","p","o"," ","A","r","c","h","i","t","e","c","t">>,
    description |-> <<"B","o","o","t","s","t","r","a","p","s"," ","a","n","d"," ","v","a","l","i","d","a","t","e","s"," ","a","g","e","n","t","i","c"," ","p","r","o","j","e","c","t"," ","s","t","r","u","c","t","u","r","e","s"," ","f","o","r"," ","G","i","t","H","u","b"," ","C","o","p","i","l","o","t"," ","w","o","r","k","f","l","o","w","s">>,
    categories |-> << <<"a","r","c","h","i","t","e","c","t","u","r","e">>, <<"m","e","t","a">> >>,
    tags |-> << <<"s","c","a","f","f","o","l","d","i","n","g">>, <<"r","e","p","o","-","s","t","r","u","c","t","u","r","e">>, <<"a","g","e","n","t","s">>, <<"s","k","i","l","l","s">> >>,
    relevantProjectTypes |-> <<"*">>,
    techKeywords |-> <<  >>,
    priority |-> 1 ],
  [ id |-> "arch",
    name |-> <<"A","r","c","h","i","t","e","c","t","u","r","e">>,
    description |-> <<"S","o","f","t","w","a","r","e"," ","a","r","c","h","i","t","e","c","t","u","r","e"," ","d","e","s","i","g","n"," ","a","n","d"," ","r","e","v","i","e","w">>,
    categories |-> << <<"a","r","c","h","i","t","e","c","t","u","r","e">> >>,
    tags |-> << <<"a","r","c","h","i","t","e","c","t","u","r","e">>, <<"d","e","s","i","g","n","-","p","a","t","t","e","r","n","s">>, <<"s","y","s","t","e","m","-","d","e","s","i","g","n">> >>,
    relevantProjectTypes |-> <<"web-app", "api", "library", "monorepo">>,
    techKeywords |-> <<  >>,
    priority |-> 1 ],
  [ id |-> "blueprint-mode",
    name |-> <<"B","l","u","e","p","r","i","n","t"," ","M","o","d","e">>,
    description |-> <<"C","o","m","p","r","e","h","e","n","s","i","v","e"," ","p","r","o","j","e","c","t"," ","b","l","u","e","p","r","i","n","t"," ","g","e","n","e","r","a","t","i","o","n">>,
    categories |-> << <<"a","r","c","h","i","t","e","c","t","u","r","e">>, <<"p","l","a","n","n","i","n","g">> >>,
    tags |-> << <<"b","l","u","e","p","r","i","n","t">>, <<"a","r","c","h","i","t","e","c","t","u","r","e">>, <<"c","o","m","p","r","e","h","e","n","s","i","v","e">> >>,
    relevantProjectTypes |-> <<"*">>,
    techKeywords |-> <<  >>,
    priority |-> 2 ],
  [ id |-> "implementation-plan",
    name |-> <<"I","m","p","l","e","m","e","n","t","a","t","i","o","n"," ","P","l","a","n">>,
    description |-> <<"D","e","t","a","i","l","e","d"," ","i","m","p","l","e","m","e","n","t","a","t","i","o","n"," ","p","l","a","n","n","i","n","g"," ","f","o","r"," ","f","e","a","t","u","r","e","s"," ","a","n","d"," ","c","h","a","n","g","e","s">>,
    categories |-> << <<"p","l","a","n","n","i","n","g">> >>,
    tags |-> << <<"i","m","p","l","e","m","e","n","t","a","t","i","o","n">>, <<"p","l","a","n","n","i","n","g">>, <<"f","e","a","t","u","r","e","s">> >>,
    relevantProjectTypes |-> <<"*">>,
    techKeywords |-> <<  >>,
    priority |-> 2 ],
  [ id |-> "principal-software-engineer",
    name |-> <<"P","r","i","n","c","i","p","a","l"," ","S","o","f","t","w","a","r","e"," ","E","n","g","i","n","e","e","r">>,
    description |-> <<"P","r","i","n","c","i","p","a","l","-","l","e","v","e","l"," ","e","n","g","i","n","e","e","r","i","n","g"," ","g","u","i","d","a","n","c","e"," ","w","i","t","h"," ","f","o","c","u","s"," ","o","n"," ","e","n","g","i","n","e","e","r","i","n","g"," ","e","x","c","e","l","l","e","n","c","e"," ","a","n","d"," ","p","r","a","g","m","a","t","i","c"," ","i","m","p","l","e","m","e","n","t","a","t","i","o","n">>,
    categories |-> << <<"e","n","g","i","n","e","e","r","i","n","g">>, <<"r","e","v","i","e","w">> >>,
    tags |-> << <<"b","e","s","t","-","p","r","a","c","t","i","c","e","s">>, <<"c","l","e","a","n","-","c","o","d","e">>, <<"s","o","l","i","d">>, <<"d","e","s","i","g","n","-","p","a","t","t","e","r","n","s">>, <<"t","e","c","h","-","d","e","b","t">> >>,
    relevantProjectTypes |-> <<"*">>,
    techKeywords |-> <<  >>,
    priority |-> 1 ],
  [ id |-> "software-engineer-agent-v1",
    name |-> <<"S","o","f","t","w","a","r","e"," ","E","n","g","i","n","e","e","r"," ","A","g","e","n","t">>,
    description |-> <<"G","e","n","e","r","a","l","-","p","u","r","p","o","s","e"," ","s","o","f","t","w","a","r","e"," ","e","n","g","i","n","e","e","r","i","n","g"," ","a","s","s","i","s","t","a","n","t">>,
    categories |-> << <<"e","n","g","i","n","e","e","r","i","n","g">> >>,
    tags |-> << <<"c","o","d","i","n","g">>, <<"i","m","p","l","e","m","e","n","t","a","t","i","o","n">>, <<"g","e","n","e","r","a","l">> >>,
    relevantProjectTypes |-> <<"*">>,
    techKeywords |-> <<  >>,
    priority |-> 2 ],
  [ id |-> "expert-nextjs-developer",
    name |-> <<"E","x","p","e","r","t"," ","N","e","x","t",".","j","s"," ","D","e","v","e","l","o","p","e","r">>,
    description |-> <<"S","p","e","c","i","a","l","i","z","e","d"," ","N","e","x","t",".","j","s"," ","d","e","v","e","l","o","p","m","e","n","t"," ","a","s","s","i","s","t","a","n","c","e">>,
    categories |-> << <<"e","n","g","i","n","e","e","r","i","n","g">>, <<"f","r","o","n","t","e","n","d">> >>,
    tags |-> << <<"n","e","x","t","j","s">>, <<"r","e","a","c","t">>, <<"s","s","r">>, <<"f","u","l","l","s","t","a","c","k">> >>,
    relevantProjectTypes |-> <<"web-app">>,
    techKeywords |-> << <<"N","e","x","t",".","j","s">>, <<"R","e","a","c","t">>, <<"T","y","p","e","S","c","r","i","p","t">> >>,
    priority |-> 2 ],
  [ id |-> "expert-react-frontend-engineer",
    name |-> <<"E","x","p","e","r","t"," ","R","e","a","c","t"," ","F","r","o","n","t","e","n","d"," ","E","n","g","i","n","e","e","r">>,
    description |-> <<"E","x","p","e","r","t"," ","R","e","a","c","t"," ","f","r","o","n","t","e","n","d"," ","d","e","v","e","l","o","p","m","e","n","t">>,
    categories |-> << <<"e","n","g","i","n","e","e","r","i","n","g">>, <<"f","r","o","n","t","e","n","d">> >>,
    tags |-> << <<"r","e","a","c","t">>, <<"f","r","o","n","t","e","n","d">>, <<"c","o","m","p","o","n","e","n","t","s">>, <<"s","t","a","t","e","-","m","a","n","a","g","e","m","e","n","t">> >>,
    relevantProjectTypes |-> <<"web-app">>,
    techKeywords |-> << <<"R","e","a","c","t">>, <<"T","y","p","e","S","c","r","i","p","t">>, <<"J","a","v","a","S","c","r","i","p","t">> >>,
    priority |-> 2 ],
  [ id |-> "expert-cpp-software-engineer",
    name |-> <<"E","x","p","e","r","t"," ","C","+","+"," ","S","o","f","t","w","a","r","e"," ","E","n","g","i","n","e","e","r">>,
    description |-> <<"C","+","+"," ","d","e","v","e","l","o","p","m","e","n","t"," ","e","x","p","e","r","t","i","s","e">>,
    categories |-> << <<"e","n","g","i","n","e","e","r","i","n","g">> >>,
    tags |-> << <<"c","p","p">>, <<"s","y","s","t","e","m","s">>, <<"p","e","r","f","o","r","m","a","n","c","e">> >>,
    relevantProjectTypes |-> <<"library">>,
    techKeywords |-> << <<"C","+","+">> >>,
    priority |-> 3 ],
  [ id |-> "expert-dotnet-software-engineer",
    name |-> <<"E","x","p","e","r","t"," ",".","N","E","T"," ","S","o","f","t","w","a","r","e"," ","E","n","g","i","n","e","e","r">>,
    description |-> <<".","N","E","T"," ","d","e","v","e","l","o","p","m","e","n","t"," ","e","x","p","e","r","t","i","s","e">>,
    categories |-> << <<"e","n","g","i","n","e","e","r","i","n","g">> >>,
    tags |-> << <<"d","o","t","n","e","t">>, <<"c","s","h","a","r","p">>, <<"a","s","p","n","e","t">> >>,
    relevantProjectTypes |-> <<"web-app", "api">>,
    techKeywords |-> << <<".","N","E","T">>, <<"C","#">>, <<"A","S","P",".","N","E","T">> >>,
    priority |-> 2 ],
  [ id |-> "api-architect",
    name |-> <<"A","P","I"," ","A","r","c","h","i","t","e","c","t">>,
    description |-> <<"A","P","I"," ","d","e","s","i","g","n"," ","a","n","d"," ","a","r","c","h","i","t","e","c","t","u","r","e"," ","s","p","e","c","i","a","l","i","s","t">>,
    categories |-> << <<"a","r","c","h","i","t","e","c","t","u","r","e">>, <<"b","a","c","k","e","n","d">> >>,
    tags |-> << <<"a","p","i">>, <<"r","e","s","t">>, <<"g","r","a","p","h","q","l">>, <<"o","p","e","n","a","p","i">> >>,
    relevantProjectTypes |-> <<"api">>,
    techKeywords |-> <<  >>,
    priority |-> 1 ],
  [ id |-> "debug",
    name |-> <<"D","e","b","u","g"," ","M","o","d","e">>,
    description |-> <<"S","y","s","t","e","m","a","t","i","c"," ","d","e","b","u","g","g","i","n","g"," ","w","i","t","h"," ","4","-","p","h","a","s","e"," ","a","p","p","r","o","a","c","h",":"," ","a","s","s","e","s","s",","," ","i","n","v","e","s","t","i","g","a","t","e",","," ","r","e","s","o","l","v","e",","," ","Q","A">>,
    categories |-> << <<"d","e","b","u","g","g","i","n","g">> >>,
    tags |-> << <<"d","e","b","u","g","g","i","n","g">>, <<"t","r","o","u","b","l","e","s","h","o","o","t","i","n","g">>, <<"r","o","o","t","-","c","a","u","s","e">> >>,
    relevantProjectTypes |-> <<"*">>,
    techKeywords |-> <<  >>,
    priority |-> 1 ],
  [ id |-> "playwright-tester",
    name |-> <<"P","l","a","y","w","r","i","g","h","t"," ","T","e","s","t","e","r">>,
    description |-> <<"E","2","E"," ","t","e","s","t","i","n","g"," ","w","i","t","h"," ","P","l","a","y","w","r","i","g","h","t">>,
    categories |-> << <<"t","e","s","t","i","n","g">> >>,
    tags |-> << <<"e","2","e">>, <<"p","l","a","y","w","r","i","g","h","t">>, <<"b","r","o","w","s","e","r","-","t","e","s","t","i","n","g">> >>,
    relevantProjectTypes |-> <<"web-app">>,
    techKeywords |-> << <<"P","l","a","y","w","r","i","g","h","t">>, <<"T","y","p","e","S","c","r","i","p","t">> >>,
    priority |-> 2 ],
  [ id |-> "polyglot-test-builder",
    name |-> <<"P","o","l","y","g","l","o","t"," ","T","e","s","t"," ","B","u","i","l","d","e","r">>,
    description |-> <<"M","u","l","t","i","-","l","a","n","g","u","a","g","e"," ","t","e","s","t"," ","g","e","n","e","r","a","t","i","o","n"," ","a","n","d"," ","m","a","n","a","g","e","m","e","n","t">>,
    categories |-> << <<"t","e","s","t","i","n","g">> >>,
    tags |-> << <<"t","e","s","t","i","n","g">>, <<"p","o","l","y","g","l","o","t">>, <<"m","u","l","t","i","-","l","a","n","g","u","a","g","e">> >>,
    relevantProjectTypes |-> <<"*">>,
    techKeywords |-> <<  >>,
    priority |-> 2 ],
  [ id |-> "tdd-red",
    name |-> <<"T","D","D"," ","R","e","d"," ","P","h","a","s","e">>,
    description |-> <<"W","r","i","t","e"," ","f","a","i","l","i","n","g"," ","t","e","s","t","s"," ","f","i","r","s","t"," ","(","R","e","d"," ","p","h","a","s","e"," ","o","f"," ","T","D","D",")">>,
    categories |-> << <<"t","e","s","t","i","n","g">> >>,
    tags |-> << <<"t","d","d">>, <<"r","e","d">>, <<"t","e","s","t","-","f","i","r","s","t">> >>,
    relevantProjectTypes |-> <<"*">>,
    techKeywords |-> <<  >>,
    priority |-> 2 ],
  [ id |-> "tdd-green",
    name |-> <<"T","D","D"," ","G","r","e","e","n"," ","P","h","a","s","e">>,
    description |-> <<"M","a","k","e"," ","t","e","s","t","s"," ","p","a","s","s"," ","w","i","t","h"," ","m","i","n","i","m","a","l"," ","c","o","d","e"," ","(","G","r","e","e","n"," ","p","h","a","s","e"," ","o","f"," ","T","D","D",")">>,
    categories |-> << <<"t","e","s","t","i","n","g">> >>,
    tags |-> << <<"t","d","d">>, <<"g","r","e","e","n">>, <<"i","m","p","l","e","m","e","n","t","a","t","i","o","n">> >>,
    relevantProjectTypes |-> <<"*">>,
    techKeywords |-> <<  >>,
    priority |-> 2 ],
  [ id |-> "tdd-refactor",
    name |-> <<"T","D","D"," ","R","e","f","a","c","t","o","r"," ","P","h","a","s","e">>,
    description |-> <<"R","e","f","a","c","t","o","r"," ","c","o","d","e"," ","w","h","i","l","e"," ","k","e","e","p","i","n","g"," ","t","e","s","t","s"," ","g","r","e","e","n">>,
    categories |-> << <<"t","e","s","t","i","n","g">> >>,
    tags |-> << <<"t","d","d">>, <<"r","e","f","a","c","t","o","r">>, <<"c","l","e","a","n","-","c","o","d","e">> >>,
    relevantProjectTypes |-> <<"*">>,
    techKeywords |-> <<  >>,
    priority |-> 2 ],
  [ id |-> "devops-expert",
    name |-> <<"D","e","v","O","p","s"," ","E","x","p","e","r","t">>,
    description |-> <<"D","e","v","O","p","s"," ","s","p","e","c","i","a","l","i","s","t"," ","f","o","l","l","o","w","i","n","g"," ","t","h","e"," ","i","n","f","i","n","i","t","y"," ","l","o","o","p"," ","p","r","i","n","c","i","p","l","e"," ","w","i","t","h"," ","f","o","c","u","s"," ","o","n"," ","a","u","t","o","m","a","t","i","o","n">>,
    categories |-> << <<"d","e","v","o","p","s">> >>,
    tags |-> << <<"d","e","v","o","p","s">>, <<"c","i","c","d">>, <<"a","u","t","o","m","a","t","i","o","n">>, <<"m","o","n","i","t","o","r","i","n","g">>, <<"d","o","r","a">> >>,
    relevantProjectTypes |-> <<"devops", "api", "web-app">>,
    techKeywords |-> << <<"D","o","c","k","e","r">>, <<"K","u","b","e","r","n","e","t","e","s">>, <<"T","e","r","r","a","f","o","r","m">> >>,
    priority |-> 1 ],
  [ id |-> "platform-sre-kubernetes",
    name |-> <<"P","l","a","t","f","o","r","m"," ","S","R","E"," ","K","u","b","e","r","n","e","t","e","s">>,
    description |-> <<"K","u","b","e","r","n","e","t","e","s"," ","p","l","a","t","f","o","r","m"," ","e","n","g","i","n","e","e","r","i","n","g"," ","a","n","d"," ","S","R","E">>,
    categories |-> << <<"d","e","v","o","p","s">>, <<"c","l","o","u","d">> >>,
    tags |-> << <<"k","u","b","e","r","n","e","t","e","s">>, <<"s","r","e">>, <<"p","l","a","t","f","o","r","m">>, <<"r","e","l","i","a","b","i","l","i","t","y">> >>,
    relevantProjectTypes |-> <<"devops">>,
    techKeywords |-> << <<"K","u","b","e","r","n","e","t","e","s">>, <<"D","o","c","k","e","r">> >>,
    priority |-> 2 ],
  [ id |-> "github-actions-expert",
    name |-> <<"G","i","t","H","u","b"," ","A","c","t","i","o","n","s"," ","E","x","p","e","r","t">>,
    description |-> <<"G","i","t","H","u","b"," ","A","c","t","i","o","n","s"," ","C","I","/","C","D"," ","p","i","p","e","l","i","n","e"," ","s","p","e","c","i","a","l","i","s","t">>,
    categories |-> << <<"d","e","v","o","p","s">> >>,
    tags |-> << <<"g","i","t","h","u","b","-","a","c","t","i","o","n","s">>, <<"c","i","c","d">>, <<"w","o","r","k","f","l","o","w","s">> >>,
    relevantProjectTypes |-> <<"*">>,
    techKeywords |-> << <<"G","i","t","H","u","b"," ","A","c","t","i","o","n","s">> >>,
    priority |-> 2 ],
  [ id |-> "terraform",
    name |-> <<"T","e","r","r","a","f","o","r","m">>,
    description |-> <<"T","e","r","r","a","f","o","r","m"," ","i","n","f","r","a","s","t","r","u","c","t","u","r","e"," ","a","s"," ","c","o","d","e"," ","s","p","e","c","i","a","l","i","s","t">>,
    categories |-> << <<"d","e","v","o","p","s">>, <<"c","l","o","u","d">> >>,
    tags |-> << <<"t","e","r","r","a","f","o","r","m">>, <<"i","a","c">>, <<"i","n","f","r","a","s","t","r","u","c","t","u","r","e">> >>,
    relevantProjectTypes |-> <<"devops">>,
    techKeywords |-> << <<"T","e","r","r","a","f","o","r","m">>, <<"H","C","L">> >>,
    priority |-> 2 ],
  [ id |-> "se-technical-writer",
    name |-> <<"T","e","c","h","n","i","c","a","l"," ","W","r","i","t","e","r">>,
    description |-> <<"T","e","c","h","n","i","c","a","l"," ","d","o","c","u","m","e","n","t","a","t","i","o","n"," ","w","r","i","t","i","n","g"," ","s","p","e","c","i","a","l","i","s","t">>,
    categories |-> << <<"d","o","c","u","m","e","n","t","a","t","i","o","n">> >>,
    tags |-> << <<"d","o","c","u","m","e","n","t","a","t","i","o","n">>, <<"t","e","c","h","n","i","c","a","l","-","w","r","i","t","i","n","g">>, <<"a","p","i","-","d","o","c","s">> >>,
    relevantProjectTypes |-> <<"*">>,
    techKeywords |-> <<  >>,
    priority |-> 1 ],
  [ id |-> "gem-documentation-writer",
    name |-> <<"D","o","c","u","m","e","n","t","a","t","i","o","n"," ","W","r","i","t","e","r">>,
    description |-> <<"D","o","c","u","m","e","n","t","a","t","i","o","n"," ","g","e","n","e","r","a","t","i","o","n"," ","a","n","d"," ","m","a","n","a","g","e","m","e","n","t">>,
    categories |-> << <<"d","o","c","u","m","e","n","t","a","t","i","o","n">> >>,
    tags |-> << <<"d","o","c","u","m","e","n","t","a","t","i","o","n">>, <<"w","r","i","t","i","n","g">>, <<"m","a","r","k","d","o","w","n">> >>,
    relevantProjectTypes |-> <<"*">>,
    techKeywords |-> <<  >>,
    priority |-> 2 ],
  [ id |-> "gem-reviewer",
    name |-> <<"C","o","d","e"," ","R","e","v","i","e","w","e","r">>,
    description |-> <<"C","o","d","e"," ","r","e","v","i","e","w"," ","a","s","s","i","s","t","a","n","t">>,
    categories |-> << <<"r","e","v","i","e","w">> >>,
    tags |-> << <<"c","o","d","e","-","r","e","v","i","e","w">>, <<"q","u","a","l","i","t","y">>, <<"s","t","a","n","d","a","r","d","s">> >>,
    relevantProjectTypes |-> <<"*">>,
    techKeywords |-> <<  >>,
    priority |-> 1 ],
  [ id |-> "se-security-reviewer",
    name |-> <<"S","e","c","u","r","i","t","y"," ","R","e","v","i","e","w","e","r">>,
    description |-> <<"S","e","c","u","r","i","t","y","-","f","o","c","u","s","e","d"," ","c","o","d","e"," ","r","e","v","i","e","w">>,
    categories |-> << <<"r","e","v","i","e","w">>, <<"s","e","c","u","r","i","t","y">> >>,
    tags |-> << <<"s","e","c","u","r","i","t","y">>, <<"r","e","v","i","e","w">>, <<"v","u","l","n","e","r","a","b","i","l","i","t","i","e","s">> >>,
    relevantProjectTypes |-> <<"*">>,
    techKeywords |-> <<  >>,
    priority |-> 2 ],
  [ id |-> "se-system-architecture-reviewer",
    name |-> <<"S","y","s","t","e","m"," ","A","r","c","h","i","t","e","c","t","u","r","e"," ","R","e","v","i","e","w","e","r">>,
    description |-> <<"S","y","s","t","e","m"," ","a","r","c","h","i","t","e","c","t","u","r","e"," ","r","e","v","i","e","w"," ","a","n","d"," ","a","s","s","e","s","s","m","e","n","t">>,
    categories |-> << <<"r","e","v","i","e","w">>, <<"a","r","c","h","i","t","e","c","t","u","r","e">> >>,
    tags |-> << <<"a","r","c","h","i","t","e","c","t","u","r","e">>, <<"r","e","v","i","e","w">>, <<"a","s","s","e","s","s","m","e","n","t">> >>,
    relevantProjectTypes |-> <<"*">>,
    techKeywords |-> <<  >>,
    priority |-> 2 ],
  [ id |-> "critical-thinking",
    name |-> <<"C","r","i","t","i","c","a","l"," ","T","h","i","n","k","i","n","g">>,
    description |-> <<"C","h","a","l","l","e","n","g","e","s"," ","a","s","s","u","m","p","t","i","o","n","s"," ","a","n","d"," ","e","n","c","o","u","r","a","g","e","s"," ","d","e","e","p","e","r"," ","a","n","a","l","y","s","i","s">>,
    categories |-> << <<"r","e","v","i","e","w">> >>,
    tags |-> << <<"c","r","i","t","i","c","a","l","-","t","h","i","n","k","i","n","g">>, <<"a","n","a","l","y","s","i","s">>, <<"a","s","s","u","m","p","t","i","o","n","s">> >>,
    relevantProjectTypes |-> <<"*">>,
    techKeywords |-> <<  >>,
    priority |-> 2 ],
  [ id |-> "devils-advocate",
    name |-> <<"D","e","v","i","l","'","s"," ","A","d","v","o","c","a","t","e">>,
    description |-> <<"C","h","a","l","l","e","n","g","e","s"," ","d","e","c","i","s","i","o","n","s"," ","t","o"," ","s","t","r","e","n","g","t","h","e","n"," ","s","o","l","u","t","i","o","n","s">>,
    categories |-> << <<"r","e","v","i","e","w">> >>,
    tags |-> << <<"d","e","v","i","l","s","-","a","d","v","o","c","a","t","e">>, <<"c","h","a","l","l","e","n","g","e">>, <<"r","o","b","u","s","t","n","e","s","s">> >>,
    relevantProjectTypes |-> <<"*">>,
    techKeywords |-> <<  >>,
    priority |-> 3 ],
  [ id |-> "prompt-engineer",
    name |-> <<"P","r","o","m","p","t"," ","E","n","g","i","n","e","e","r">>,
    description |-> <<"A","n","a","l","y","z","e","s"," ","a","n","d"," ","i","m","p","r","o","v","e","s"," ","p","r","o","m","p","t","s"," ","f","o","l","l","o","w","i","n","g"," ","O","p","e","n","A","I"," ","b","e","s","t"," ","p","r","a","c","t","i","c","e","s">>,
    categories |-> << <<"m","e","t","a">> >>,
    tags |-> << <<"p","r","o","m","p","t","-","e","n","g","i","n","e","e","r","i","n","g">>, <<"o","p","t","i","m","i","z","a","t","i","o","n">>, <<"l","l","m">> >>,
    relevantProjectTypes |-> <<"*">>,
    techKeywords |-> <<  >>,
    priority |-> 2 ],
  [ id |-> "meta-agentic-project-scaffold",
    name |-> <<"M","e","t","a"," ","A","g","e","n","t","i","c"," ","P","r","o","j","e","c","t"," ","S","c","a","f","f","o","l","d">>,
    description |-> <<"M","e","t","a","-","a","g","e","n","t"," ","f","o","r"," ","p","u","l","l","i","n","g"," ","a","n","d"," ","o","r","g","a","n","i","z","i","n","g"," ","a","g","e","n","t","i","c"," ","p","r","o","j","e","c","t"," ","s","t","r","u","c","t","u","r","e","s">>,
    categories |-> << <<"m","e","t","a">> >>,
    tags |-> << <<"m","e","t","a">>, <<"s","c","a","f","f","o","l","d","i","n","g">>, <<"a","g","e","n","t","s">>, <<"o","r","g","a","n","i","z","a","t","i","o","n">> >>,
    relevantProjectTypes |-> <<"*">>,
    techKeywords |-> <<  >>,
    priority |-> 2 ],
  [ id |-> "custom-agent-foundry",
    name |-> <<"C","u","s","t","o","m"," ","A","g","e","n","t"," ","F","o","u","n","d","r","y">>,
    description |-> <<"C","r","e","a","t","e"," ","c","u","s","t","o","m"," ","a","g","e","n","t"," ","d","e","f","i","n","i","t","i","o","n","s">>,
    categories |-> << <<"m","e","t","a">> >>,
    tags |-> << <<"a","g","e","n","t","-","c","r","e","a","t","i","o","n">>, <<"c","u","s","t","o","m","i","z","a","t","i","o","n">>, <<"m","e","t","a">> >>,
    relevantProjectTypes |-> <<"*">>,
    techKeywords |-> <<  >>,
    priority |-> 3 ],
  [ id |-> "typescript-mcp-expert",
    name |-> <<"T","y","p","e","S","c","r","i","p","t"," ","M","C","P"," ","E","x","p","e","r","t">>,
    description |-> <<"T","y","p","e","S","c","r","i","p","t"," ","M","C","P"," ","s","e","r","v","e","r"," ","d","e","v","e","l","o","p","m","e","n","t"," ","s","p","e","c","i","a","l","i","s","t">>,
    categories |-> << <<"e","n","g","i","n","e","e","r","i","n","g">>, <<"b","a","c","k","e","n","d">> >>,
    tags |-> << <<"m","c","p">>, <<"t","y","p","e","s","c","r","i","p","t">>, <<"s","e","r","v","e","r">> >>,
    relevantProjectTypes |-> <<"api", "library">>,
    techKeywords |-> << <<"T","y","p","e","S","c","r","i","p","t">>, <<"M","C","P">> >>,
    priority |-> 2 ],
  [ id |-> "python-mcp-expert",
    name |-> <<"P","y","t","h","o","n"," ","M","C","P"," ","E","x","p","e","r","t">>,
    description |-> <<"P","y","t","h","o","n"," ","M","C","P"," ","s","e","r","v","e","r"," ","d","e","v","e","l","o","p","m","e","n","t"," ","s","p","e","c","i","a","l","i","s","t">>,
    categories |-> << <<"e","n","g","i","n","e","e","r","i","n","g">>, <<"b","a","c","k","e","n","d">> >>,
    tags |-> << <<"m","c","p">>, <<"p","y","t","h","o","n">>, <<"s","e","r","v","e","r">> >>,
    relevantProjectTypes |-> <<"api", "data-science">>,
    techKeywords |-> << <<"P","y","t","h","o","n">>, <<"M","C","P">> >>,
    priority |-> 3 ],
  [ id |-> "azure-principal-architect",
    name |-> <<"A","z","u","r","e"," ","P","r","i","n","c","i","p","a","l"," ","A","r","c","h","i","t","e","c","t">>,
    description |-> <<"A","z","u","r","e"," ","c","l","o","u","d"," ","a","r","c","h","i","t","e","c","t","u","r","e"," ","a","n","d"," ","b","e","s","t"," ","p","r","a","c","t","i","c","e","s">>,
    categories |-> << <<"c","l","o","u","d">>, <<"a","r","c","h","i","t","e","c","t","u","r","e">> >>,
    tags |-> << <<"a","z","u","r","e">>, <<"c","l","o","u","d">>, <<"a","r","c","h","i","t","e","c","t","u","r","e">>, <<"w","e","l","l","-","a","r","c","h","i","t","e","c","t","e","d">> >>,
    relevantProjectTypes |-> <<"devops", "api", "web-app">>,
    techKeywords |-> << <<"A","z","u","r","e">> >>,
    priority |-> 2 ],
  [ id |-> "ms-sql-dba",
    name |-> <<"M","S"," ","S","Q","L"," ","D","B","A">>,
    description |-> <<"M","i","c","r","o","s","o","f","t"," ","S","Q","L"," ","S","e","r","v","e","r"," ","d","a","t","a","b","a","s","e"," ","a","d","m","i","n","i","s","t","r","a","t","i","o","n">>,
    categories |-> << <<"d","a","t","a">> >>,
    tags |-> << <<"s","q","l">>, <<"d","a","t","a","b","a","s","e">>, <<"m","s","s","q","l">>, <<"d","b","a">> >>,
    relevantProjectTypes |-> <<"api", "data-science">>,
    techKeywords |-> << <<"S","Q","L"," ","S","e","r","v","e","r">>, <<"M","S","S","Q","L">> >>,
    priority |-> 3 ],
  [ id |-> "postgresql-dba",
    name |-> <<"P","o","s","t","g","r","e","S","Q","L"," ","D","B","A">>,
    description |-> <<"P","o","s","t","g","r","e","S","Q","L"," ","d","a","t","a","b","a","s","e"," ","a","d","m","i","n","i","s","t","r","a","t","i","o","n"," ","a","n","d"," ","o","p","t","i","m","i","z","a","t","i","o","n">>,
    categories |-> << <<"d","a","t","a">> >>,
    tags |-> << <<"p","o","s","t","g","r","e","s","q","l">>, <<"d","a","t","a","b","a","s","e">>, <<"o","p","t","i","m","i","z","a","t","i","o","n">> >>,
    relevantProjectTypes |-> <<"api", "data-science">>,
    techKeywords |-> << <<"P","o","s","t","g","r","e","S","Q","L">> >>,
    priority |-> 3 ],
  [ id |-> "electron-angular-native",
    name |-> <<"E","l","e","c","t","r","o","n"," ","A","n","g","u","l","a","r"," ","N","a","t","i","v","e">>,
    description |-> <<"E","l","e","c","t","r","o","n"," ","w","i","t","h"," ","A","n","g","u","l","a","r"," ","d","e","s","k","t","o","p"," ","a","p","p","l","i","c","a","t","i","o","n"," ","d","e","v","e","l","o","p","m","e","n","t">>,
    categories |-> << <<"f","r","o","n","t","e","n","d">>, <<"e","n","g","i","n","e","e","r","i","n","g">> >>,
    tags |-> << <<"e","l","e","c","t","r","o","n">>, <<"a","n","g","u","l","a","r">>, <<"d","e","s","k","t","o","p">> >>,
    relevantProjectTypes |-> <<"web-app">>,
    techKeywords |-> << <<"E","l","e","c","t","r","o","n">>, <<"A","n","g","u","l","a","r">> >>,
    priority |-> 3 ],
  [ id |-> "dotnet-maui",
    name |-> <<".","N","E","T"," ","M","A","U","I">>,
    description |-> <<".","N","E","T"," ","M","A","U","I"," ","c","r","o","s","s","-","p","l","a","t","f","o","r","m"," ","m","o","b","i","l","e","/","d","e","s","k","t","o","p"," ","d","e","v","e","l","o","p","m","e","n","t">>,
    categories |-> << <<"m","o","b","i","l","e">>, <<"e","n","g","i","n","e","e","r","i","n","g">> >>,
    tags |-> << <<"m","a","u","i">>, <<"d","o","t","n","e","t">>, <<"m","o","b","i","l","e">>, <<"c","r","o","s","s","-","p","l","a","t","f","o","r","m">> >>,
    relevantProjectTypes |-> <<"mobile">>,
    techKeywords |-> << <<".","N","E","T">>, <<"M","A","U","I">> >>,
    priority |-> 2 ],
  [ id |-> "prd",
    name |-> <<"P","R","D">>,
    description |-> <<"P","r","o","d","u","c","t"," ","R","e","q","u","i","r","e","m","e","n","t","s"," ","D","o","c","u","m","e","n","t"," ","g","e","n","e","r","a","t","o","r">>,
    categories |-> << <<"p","l","a","n","n","i","n","g">>, <<"d","o","c","u","m","e","n","t","a","t","i","o","n">> >>,
    tags |-> << <<"p","r","d">>, <<"r","e","q","u","i","r","e","m","e","n","t","s">>, <<"p","r","o","d","u","c","t">> >>,
    relevantProjectTypes |-> <<"*">>,
    techKeywords |-> <<  >>,
    priority |-> 2 ],
  [ id |-> "specification",
    name |-> <<"S","p","e","c","i","f","i","c","a","t","i","o","n">>,
    description |-> <<"T","e","c","h","n","i","c","a","l"," ","s","p","e","c","i","f","i","c","a","t","i","o","n"," ","d","o","c","u","m","e","n","t"," ","g","e","n","e","r","a","t","o","r">>,
    categories |-> << <<"p","l","a","n","n","i","n","g">>, <<"d","o","c","u","m","e","n","t","a","t","i","o","n">> >>,
    tags |-> << <<"s","p","e","c","i","f","i","c","a","t","i","o","n">>, <<"r","e","q","u","i","r","e","m","e","n","t","s">>, <<"t","e","c","h","n","i","c","a","l">> >>,
    relevantProjectTypes |-> <<"*">>,
    techKeywords |-> <<  >>,
    priority |-> 2 ],
  [ id |-> "gem-orchestrator",
    name |-> <<"O","r","c","h","e","s","t","r","a","t","o","r">>,
    description |-> <<"M","u","l","t","i","-","a","g","e","n","t"," ","w","o","r","k","f","l","o","w"," ","o","r","c","h","e","s","t","r","a","t","i","o","n">>,
    categories |-> << <<"m","e","t","a">> >>,
    tags |-> << <<"o","r","c","h","e","s","t","r","a","t","o","r">>, <<"w","o","r","k","f","l","o","w">>, <<"m","u","l","t","i","-","a","g","e","n","t">> >>,
    relevantProjectTypes |-> <<"*">>,
    techKeywords |-> <<  >>,
    priority |-> 2 ],
  [ id |-> "gem-implementer",
    name |-> <<"I","m","p","l","e","m","e","n","t","e","r">>,
    description |-> <<"C","o","d","e"," ","i","m","p","l","e","m","e","n","t","a","t","i","o","n"," ","f","r","o","m"," ","p","l","a","n","s">>,
    categories |-> << <<"e","n","g","i","n","e","e","r","i","n","g">> >>,
    tags |-> << <<"i","m","p","l","e","m","e","n","t","a","t","i","o","n">>, <<"c","o","d","i","n","g">> >>,
    relevantProjectTypes |-> <<"*">>,
    techKeywords |-> <<  >>,
    priority |-> 2 ],
  [ id |-> "gem-researcher",
    name |-> <<"R","e","s","e","a","r","c","h","e","r">>,
    description |-> <<"T","e","c","h","n","i","c","a","l"," ","r","e","s","e","a","r","c","h"," ","a","n","d"," ","a","n","a","l","y","s","i","s">>,
    categories |-> << <<"p","l","a","n","n","i","n","g">> >>,
    tags |-> << <<"r","e","s","e","a","r","c","h">>, <<"a","n","a","l","y","s","i","s">>, <<"i","n","v","e","s","t","i","g","a","t","i","o","n">> >>,
    relevantProjectTypes |-> <<"*">>,
    techKeywords |-> <<  >>,
    priority |-> 2 ],
  [ id |-> "4.1-Beast",
    name |-> <<"G","P","T","-","4",".","1"," ","B","e","a","s","t"," ","M","o","d","e">>,
    description |-> <<"M","a","x","i","m","u","m"," ","p","e","r","f","o","r","m","a","n","c","e"," ","a","g","e","n","t"," ","w","i","t","h"," ","a","d","v","a","n","c","e","d"," ","r","e","a","s","o","n","i","n","g"," ","a","n","d"," ","c","o","m","p","r","e","h","e","n","s","i","v","e"," ","c","a","p","a","b","i","l","i","t","i","e","s">>,
    categories |-> << <<"e","n","g","i","n","e","e","r","i","n","g">>, <<"m","e","t","a">> >>,
    tags |-> << <<"b","e","a","s","t","-","m","o","d","e">>, <<"a","d","v","a","n","c","e","d">>, <<"c","o","m","p","r","e","h","e","n","s","i","v","e">>, <<"g","p","t","-","4",".","1">> >>,
    relevantProjectTypes |-> <<"*">>,
    techKeywords |-> <<  >>,
    priority |-> 3 ],
  [ id |-> "mentor",
    name |-> <<"M","e","n","t","o","r">>,
    description |-> <<"L","e","a","r","n","i","n","g"," ","a","n","d"," ","m","e","n","t","o","r","s","h","i","p"," ","g","u","i","d","a","n","c","e">>,
    categories |-> << <<"d","o","c","u","m","e","n","t","a","t","i","o","n">> >>,
    tags |-> << <<"m","e","n","t","o","r">>, <<"l","e","a","r","n","i","n","g">>, <<"g","u","i","d","a","n","c","e">>, <<"e","d","u","c","a","t","i","o","n">> >>,
    relevantProjectTypes |-> <<"learning">>,
    techKeywords |-> <<  >>,
    priority |-> 2 ],
  [ id |-> "janitor",
    name |-> <<"J","a","n","i","t","o","r">>,
    description |-> <<"C","o","d","e"," ","c","l","e","a","n","u","p"," ","a","n","d"," ","m","a","i","n","t","e","n","a","n","c","e">>,
    categories |-> << <<"r","e","v","i","e","w">> >>,
    tags |-> << <<"c","l","e","a","n","u","p">>, <<"m","a","i","n","t","e","n","a","n","c","e">>, <<"r","e","f","a","c","t","o","r">> >>,
    relevantProjectTypes |-> <<"*">>,
    techKeywords |-> <<  >>,
    priority |-> 3 ]
  >>

SKILL_REGISTRY ==
  <<
  [ id |-> "copilot-instructions-blueprint-generator",
    name |-> <<"C","o","p","i","l","o","t"," ","I","n","s","t","r","u","c","t","i","o","n","s"," ","B","l","u","e","p","r","i","n","t">>,
    description |-> <<"T","e","c","h","n","o","l","o","g","y","-","a","g","n","o","s","t","i","c"," ","b","l","u","e","p","r","i","n","t"," ","g","e","n","e","r","a","t","o","r"," ","f","o","r"," ","c","o","p","i","l","o","t","-","i","n","s","t","r","u","c","t","i","o","n","s",".","m","d"," ","f","i","l","e","s">>,
    categories |-> << <<"b","l","u","e","p","r","i","n","t">>, <<"p","r","o","j","e","c","t","-","s","e","t","u","p">> >>,
    tags |-> << <<"c","o","p","i","l","o","t">>, <<"i","n","s","t","r","u","c","t","i","o","n","s">>, <<"b","l","u","e","p","r","i","n","t">>, <<"s","t","a","n","d","a","r","d","s">> >>,
    relevantProjectTypes |-> <<"*">>,
    techKeywords |-> <<  >>,
    hasResources |-> FALSE,
    priority |-> 1 ],
  [ id |-> "folder-structure-blueprint-generator",
    name |-> <<"F","o","l","d","e","r"," ","S","t","r","u","c","t","u","r","e"," ","B","l","u","e","p","r","i","n","t">>,
    description |-> <<"A","n","a","l","y","z","e","s"," ","a","n","d"," ","d","o","c","u","m","e","n","t","s"," ","p","r","o","j","e","c","t"," ","f","o","l","d","e","r"," ","s","t","r","u","c","t","u","r","e","s"," ","w","i","t","h"," ","v","i","s","u","a","l","i","z","a","t","i","o","n">>,
    categories |-> << <<"b","l","u","e","p","r","i","n","t">>, <<"p","r","o","j","e","c","t","-","s","e","t","u","p">> >>,
    tags |-> << <<"f","o","l","d","e","r","-","s","t","r","u","c","t","u","r","e">>, <<"b","l","u","e","p","r","i","n","t">>, <<"v","i","s","u","a","l","i","z","a","t","i","o","n">> >>,
    relevantProjectTypes |-> <<"*">>,
    techKeywords |-> <<  >>,
    hasResources |-> FALSE,
    priority |-> 1 ],
  [ id |-> "technology-stack-blueprint-generator",
    name |-> <<"T","e","c","h","n","o","l","o","g","y"," ","S","t","a","c","k"," ","B","l","u","e","p","r","i","n","t">>,
    description |-> <<"A","n","a","l","y","z","e","s"," ","c","o","d","e","b","a","s","e","s"," ","t","o"," ","c","r","e","a","t","e"," ","d","e","t","a","i","l","e","d"," ","t","e","c","h","n","o","l","o","g","y"," ","s","t","a","c","k"," ","d","o","c","u","m","e","n","t","a","t","i","o","n">>,
    categories |-> << <<"b","l","u","e","p","r","i","n","t">>, <<"a","n","a","l","y","s","i","s">> >>,
    tags |-> << <<"t","e","c","h","-","s","t","a","c","k">>, <<"b","l","u","e","p","r","i","n","t">>, <<"a","n","a","l","y","s","i","s">>, <<"d","o","c","u","m","e","n","t","a","t","i","o","n">> >>,
    relevantProjectTypes |-> <<"*">>,
    techKeywords |-> <<  >>,
    hasResources |-> FALSE,
    priority |-> 1 ],
  [ id |-> "architecture-blueprint-generator",
    name |-> <<"A","r","c","h","i","t","e","c","t","u","r","e"," ","B","l","u","e","p","r","i","n","t">>,
    description |-> <<"G","e","n","e","r","a","t","e","s"," ","c","o","m","p","r","e","h","e","n","s","i","v","e"," ","a","r","c","h","i","t","e","c","t","u","r","e"," ","d","o","c","u","m","e","n","t","a","t","i","o","n">>,
    categories |-> << <<"b","l","u","e","p","r","i","n","t">> >>,
    tags |-> << <<"a","r","c","h","i","t","e","c","t","u","r","e">>, <<"b","l","u","e","p","r","i","n","t">>, <<"d","o","c","u","m","e","n","t","a","t","i","o","n">> >>,
    relevantProjectTypes |-> <<"*">>,
    techKeywords |-> <<  >>,
    hasResources |-> FALSE,
    priority |-> 1 ],
  [ id |-> "readme-blueprint-generator",
    name |-> <<"R","E","A","D","M","E"," ","B","l","u","e","p","r","i","n","t">>,
    description |-> <<"G","e","n","e","r","a","t","e","s"," ","c","o","m","p","r","e","h","e","n","s","i","v","e"," ","R","E","A","D","M","E"," ","d","o","c","u","m","e","n","t","a","t","i","o","n"," ","b","l","u","e","p","r","i","n","t","s">>,
    categories |-> << <<"b","l","u","e","p","r","i","n","t">>, <<"d","o","c","u","m","e","n","t","-","g","e","n">> >>,
    tags |-> << <<"r","e","a","d","m","e">>, <<"b","l","u","e","p","r","i","n","t">>, <<"d","o","c","u","m","e","n","t","a","t","i","o","n">> >>,
    relevantProjectTypes |-> <<"*">>,
    techKeywords |-> <<  >>,
    hasResources |-> FALSE,
    priority |-> 2 ],
  [ id |-> "code-exemplars-blueprint-generator",
    name |-> <<"C","o","d","e"," ","E","x","e","m","p","l","a","r","s"," ","B","l","u","e","p","r","i","n","t">>,
    description |-> <<"G","e","n","e","r","a","t","e","s"," ","c","o","d","e"," ","e","x","a","m","p","l","e"," ","b","l","u","e","p","r","i","n","t","s"," ","f","o","r"," ","d","o","c","u","m","e","n","t","a","t","i","o","n">>,
    categories |-> << <<"b","l","u","e","p","r","i","n","t">> >>,
    tags |-> << <<"c","o","d","e","-","e","x","a","m","p","l","e","s">>, <<"b","l","u","e","p","r","i","n","t">>, <<"d","o","c","u","m","e","n","t","a","t","i","o","n">> >>,
    relevantProjectTypes |-> <<"library">>,
    techKeywords |-> <<  >>,
    hasResources |-> FALSE,
    priority |-> 2 ],
  [ id |-> "project-workflow-analysis-blueprint-generator",
    name |-> <<"P","r","o","j","e","c","t"," ","W","o","r","k","f","l","o","w"," ","B","l","u","e","p","r","i","n","t">>,
    description |-> <<"A","n","a","l","y","z","e","s"," ","a","n","d"," ","d","o","c","u","m","e","n","t","s"," ","p","r","o","j","e","c","t"," ","w","o","r","k","f","l","o","w"," ","p","a","t","t","e","r","n","s">>,
    categories |-> << <<"b","l","u","e","p","r","i","n","t">>, <<"a","n","a","l","y","s","i","s">> >>,
    tags |-> << <<"w","o","r","k","f","l","o","w">>, <<"b","l","u","e","p","r","i","n","t">>, <<"a","n","a","l","y","s","i","s">> >>,
    relevantProjectTypes |-> <<"*">>,
    techKeywords |-> <<  >>,
    hasResources |-> FALSE,
    priority |-> 2 ],
  [ id |-> "create-specification",
    name |-> <<"C","r","e","a","t","e"," ","S","p","e","c","i","f","i","c","a","t","i","o","n">>,
    description |-> <<"C","r","e","a","t","e","s"," ","s","p","e","c","i","f","i","c","a","t","i","o","n"," ","f","i","l","e","s"," ","o","p","t","i","m","i","z","e","d"," ","f","o","r"," ","A","I"," ","c","o","n","s","u","m","p","t","i","o","n">>,
    categories |-> << <<"d","o","c","u","m","e","n","t","-","g","e","n">> >>,
    tags |-> << <<"s","p","e","c","i","f","i","c","a","t","i","o","n">>, <<"r","e","q","u","i","r","e","m","e","n","t","s">>, <<"a","i","-","o","p","t","i","m","i","z","e","d">> >>,
    relevantProjectTypes |-> <<"*">>,
    techKeywords |-> <<  >>,
    hasResources |-> FALSE,
    priority |-> 1 ],
  [ id |-> "create-implementation-plan",
    name |-> <<"C","r","e","a","t","e"," ","I","m","p","l","e","m","e","n","t","a","t","i","o","n"," ","P","l","a","n">>,
    description |-> <<"C","r","e","a","t","e","s"," ","d","e","t","e","r","m","i","n","i","s","t","i","c",","," ","m","a","c","h","i","n","e","-","r","e","a","d","a","b","l","e"," ","i","m","p","l","e","m","e","n","t","a","t","i","o","n"," ","p","l","a","n","s">>,
    categories |-> << <<"d","o","c","u","m","e","n","t","-","g","e","n">> >>,
    tags |-> << <<"i","m","p","l","e","m","e","n","t","a","t","i","o","n">>, <<"p","l","a","n","n","i","n","g">>, <<"t","a","s","k","s">> >>,
    relevantProjectTypes |-> <<"*">>,
    techKeywords |-> <<  >>,
    hasResources |-> FALSE,
    priority |-> 1 ],
  [ id |-> "create-readme",
    name |-> <<"C","r","e","a","t","e"," ","R","E","A","D","M","E">>,
    description |-> <<"C","r","e","a","t","e","s"," ","p","r","o","f","e","s","s","i","o","n","a","l"," ","R","E","A","D","M","E",".","m","d"," ","f","i","l","e","s">>,
    categories |-> << <<"d","o","c","u","m","e","n","t","-","g","e","n">> >>,
    tags |-> << <<"r","e","a","d","m","e">>, <<"d","o","c","u","m","e","n","t","a","t","i","o","n">>, <<"g","i","t","h","u","b">> >>,
    relevantProjectTypes |-> <<"*">>,
    techKeywords |-> <<  >>,
    hasResources |-> FALSE,
    priority |-> 1 ],
  [ id |-> "create-agentsmd",
    name |-> <<"C","r","e","a","t","e"," ","A","G","E","N","T","S",".","m","d">>,
    description |-> <<"C","r","e","a","t","e","s"," ","A","G","E","N","T","S",".","m","d"," ","U+2014"," ","a","n"," ","o","p","e","n","-","f","o","r","m","a","t"," ","R","E","A","D","M","E"," ","f","o","r"," ","a","g","e","n","t","s">>,
    categories |-> << <<"d","o","c","u","m","e","n","t","-","g","e","n">>, <<"p","r","o","j","e","c","t","-","s","e","t","u","p">> >>,
    tags |-> << <<"a","g","e","n","t","s",".","m","d">>, <<"a","g","e","n","t","-","c","o","n","f","i","g">>, <<"d","o","c","u","m","e","n","t","a","t","i","o","n">> >>,
    relevantProjectTypes |-> <<"*">>,
    techKeywords |-> <<  >>,
    hasResources |-> FALSE,
    priority |-> 1 ],
  [ id |-> "create-architectural-decision-record",
    name |-> <<"C","r","e","a","t","e"," ","A","D","R">>,
    description |-> <<"C","r","e","a","t","e","s"," ","A","r","c","h","i","t","e","c","t","u","r","a","l"," ","D","e","c","i","s","i","o","n"," ","R","e","c","o","r","d","s"," ","f","o","r"," ","A","I","-","o","p","t","i","m","i","z","e","d"," ","d","e","c","i","s","i","o","n"," ","d","o","c","u","m","e","n","t","a","t","i","o","n">>,
    categories |-> << <<"d","o","c","u","m","e","n","t","-","g","e","n">> >>,
    tags |-> << <<"a","d","r">>, <<"a","r","c","h","i","t","e","c","t","u","r","e">>, <<"d","e","c","i","s","i","o","n","s">> >>,
    relevantProjectTypes |-> <<"*">>,
    techKeywords |-> <<  >>,
    hasResources |-> FALSE,
    priority |-> 1 ],
  [ id |-> "create-llms",
    name |-> <<"C","r","e","a","t","e"," ","L","L","M","s",".","t","x","t">>,
    description |-> <<"C","r","e","a","t","e","s"," ","L","L","M","s",".","t","x","t"," ","f","i","l","e"," ","f","o","r"," ","A","I"," ","c","o","n","t","e","x","t">>,
    categories |-> << <<"d","o","c","u","m","e","n","t","-","g","e","n">>, <<"p","r","o","j","e","c","t","-","s","e","t","u","p">> >>,
    tags |-> << <<"l","l","m","s",".","t","x","t">>, <<"a","i","-","c","o","n","t","e","x","t">>, <<"d","o","c","u","m","e","n","t","a","t","i","o","n">> >>,
    relevantProjectTypes |-> <<"*">>,
    techKeywords |-> <<  >>,
    hasResources |-> FALSE,
    priority |-> 2 ],
  [ id |-> "prd",
    name |-> <<"P","r","o","d","u","c","t"," ","R","e","q","u","i","r","e","m","e","n","t","s"," ","D","o","c","u","m","e","n","t">>,
    description |-> <<"C","r","e","a","t","e","s"," ","P","r","o","d","u","c","t"," ","R","e","q","u","i","r","e","m","e","n","t","s"," ","D","o","c","u","m","e","n","t","s"," ","(","P","R","D",")">>,
    categories |-> << <<"d","o","c","u","m","e","n","t","-","g","e","n">> >>,
    tags |-> << <<"p","r","d">>, <<"r","e","q","u","i","r","e","m","e","n","t","s">>, <<"p","r","o","d","u","c","t">> >>,
    relevantProjectTypes |-> <<"web-app", "api", "mobile">>,
    techKeywords |-> <<  >>,
    hasResources |-> FALSE,
    priority |-> 2 ],
  [ id |-> "conventional-commit",
    name |-> <<"C","o","n","v","e","n","t","i","o","n","a","l"," ","C","o","m","m","i","t">>,
    description |-> <<"G","e","n","e","r","a","t","e","s"," ","s","t","a","n","d","a","r","d","i","z","e","d"," ","c","o","n","v","e","n","t","i","o","n","a","l"," ","c","o","m","m","i","t"," ","m","e","s","s","a","g","e","s">>,
    categories |-> << <<"g","i","t">> >>,
    tags |-> << <<"c","o","m","m","i","t">>, <<"c","o","n","v","e","n","t","i","o","n","a","l">>, <<"g","i","t">>, <<"w","o","r","k","f","l","o","w">> >>,
    relevantProjectTypes |-> <<"*">>,
    techKeywords |-> <<  >>,
    hasResources |-> FALSE,
    priority |-> 1 ],
  [ id |-> "git-commit",
    name |-> <<"G","i","t"," ","C","o","m","m","i","t">>,
    description |-> <<"G","i","t"," ","c","o","m","m","i","t"," ","m","e","s","s","a","g","e"," ","h","e","l","p","e","r">>,
    categories |-> << <<"g","i","t">> >>,
    tags |-> << <<"c","o","m","m","i","t">>, <<"g","i","t">> >>,
    relevantProjectTypes |-> <<"*">>,
    techKeywords |-> <<  >>,
    hasResources |-> FALSE,
    priority |-> 2 ],
  [ id |-> "git-flow-branch-creator",
    name |-> <<"G","i","t"," ","F","l","o","w"," ","B","r","a","n","c","h"," ","C","r","e","a","t","o","r">>,
    description |-> <<"C","r","e","a","t","e","s"," ","b","r","a","n","c","h","e","s"," ","f","o","l","l","o","w","i","n","g"," ","G","i","t"," ","F","l","o","w"," ","n","a","m","i","n","g"," ","c","o","n","v","e","n","t","i","o","n","s">>,
    categories |-> << <<"g","i","t">> >>,
    tags |-> << <<"g","i","t","-","f","l","o","w">>, <<"b","r","a","n","c","h","i","n","g">>, <<"n","a","m","i","n","g">> >>,
    relevantProjectTypes |-> <<"*">>,
    techKeywords |-> <<  >>,
    hasResources |-> FALSE,
    priority |-> 2 ],
  [ id |-> "generate-custom-instructions-from-codebase",
    name |-> <<"G","e","n","e","r","a","t","e"," ","C","u","s","t","o","m"," ","I","n","s","t","r","u","c","t","i","o","n","s">>,
    description |-> <<"G","e","n","e","r","a","t","e","s"," ","m","i","g","r","a","t","i","o","n","/","e","v","o","l","u","t","i","o","n"," ","i","n","s","t","r","u","c","t","i","o","n","s"," ","b","y"," ","a","n","a","l","y","z","i","n","g"," ","c","o","d","e","b","a","s","e"," ","d","i","f","f","e","r","e","n","c","e","s">>,
    categories |-> << <<"c","o","d","e","-","g","e","n">>, <<"m","i","g","r","a","t","i","o","n">> >>,
    tags |-> << <<"i","n","s","t","r","u","c","t","i","o","n","s">>, <<"m","i","g","r","a","t","i","o","n">>, <<"e","v","o","l","u","t","i","o","n">>, <<"c","o","d","e","b","a","s","e","-","a","n","a","l","y","s","i","s">> >>,
    relevantProjectTypes |-> <<"*">>,
    techKeywords |-> <<  >>,
    hasResources |-> FALSE,
    priority |-> 1 ],
  [ id |-> "typescript-mcp-server-generator",
    name |-> <<"T","y","p","e","S","c","r","i","p","t"," ","M","C","P"," ","S","e","r","v","e","r"," ","G","e","n","e","r","a","t","o","r">>,
    description |-> <<"G","e","n","e","r","a","t","e","s"," ","T","y","p","e","S","c","r","i","p","t"," ","M","C","P"," ","s","e","r","v","e","r"," ","s","c","a","f","f","o","l","d","i","n","g">>,
    categories |-> << <<"m","c","p">>, <<"c","o","d","e","-","g","e","n">> >>,
    tags |-> << <<"m","c","p">>, <<"t","y","p","e","s","c","r","i","p","t">>, <<"s","e","r","v","e","r">>, <<"s","c","a","f","f","o","l","d","i","n","g">> >>,
    relevantProjectTypes |-> <<"api", "library">>,
    techKeywords |-> << <<"T","y","p","e","S","c","r","i","p","t">>, <<"M","C","P">> >>,
    hasResources |-> FALSE,
    priority |-> 2 ],
  [ id |-> "python-mcp-server-generator",
    name |-> <<"P","y","t","h","o","n"," ","M","C","P"," ","S","e","r","v","e","r"," ","G","e","n","e","r","a","t","o","r">>,
    description |-> <<"G","e","n","e","r","a","t","e","s"," ","P","y","t","h","o","n"," ","M","C","P"," ","s","e","r","v","e","r"," ","s","c","a","f","f","o","l","d","i","n","g">>,
    categories |-> << <<"m","c","p">>, <<"c","o","d","e","-","g","e","n">> >>,
    tags |-> << <<"m","c","p">>, <<"p","y","t","h","o","n">>, <<"s","e","r","v","e","r">> >>,
    relevantProjectTypes |-> <<"api", "data-science">>,
    techKeywords |-> << <<"P","y","t","h","o","n">>, <<"M","C","P">> >>,
    hasResources |-> FALSE,
    priority |-> 3 ],
  [ id |-> "create-spring-boot-java-project",
    name |-> <<"S","p","r","i","n","g"," ","B","o","o","t"," ","J","a","v","a"," ","P","r","o","j","e","c","t">>,
    description |-> <<"C","r","e","a","t","e","s"," ","S","p","r","i","n","g"," ","B","o","o","t"," ","J","a","v","a"," ","p","r","o","j","e","c","t"," ","s","c","a","f","f","o","l","d","i","n","g">>,
    categories |-> << <<"c","o","d","e","-","g","e","n">> >>,
    tags |-> << <<"s","p","r","i","n","g","-","b","o","o","t">>, <<"j","a","v","a">>, <<"s","c","a","f","f","o","l","d","i","n","g">> >>,
    relevantProjectTypes |-> <<"api", "web-app">>,
    techKeywords |-> << <<"J","a","v","a">>, <<"S","p","r","i","n","g"," ","B","o","o","t">> >>,
    hasResources |-> FALSE,
    priority |-> 3 ],
  [ id |-> "create-spring-boot-kotlin-project",
    name |-> <<"S","p","r","i","n","g"," ","B","o","o","t"," ","K","o","t","l","i","n"," ","P","r","o","j","e","c","t">>,
    description |-> <<"C","r","e","a","t","e","s"," ","S","p","r","i","n","g"," ","B","o","o","t"," ","K","o","t","l","i","n"," ","p","r","o","j","e","c","t"," ","s","c","a","f","f","o","l","d","i","n","g">>,
    categories |-> << <<"c","o","d","e","-","g","e","n">> >>,
    tags |-> << <<"s","p","r","i","n","g","-","b","o","o","t">>, <<"k","o","t","l","i","n">>, <<"s","c","a","f","f","o","l","d","i","n","g">> >>,
    relevantProjectTypes |-> <<"api">>,
    techKeywords |-> << <<"K","o","t","l","i","n">>, <<"S","p","r","i","n","g"," ","B","o","o","t">> >>,
    hasResources |-> FALSE,
    priority |-> 3 ],
  [ id |-> "create-web-form",
    name |-> <<"C","r","e","a","t","e"," ","W","e","b"," ","F","o","r","m">>,
    description |-> <<"G","e","n","e","r","a","t","e","s"," ","w","e","b"," ","f","o","r","m"," ","c","o","m","p","o","n","e","n","t","s">>,
    categories |-> << <<"c","o","d","e","-","g","e","n">> >>,
    tags |-> << <<"f","o","r","m">>, <<"w","e","b">>, <<"c","o","m","p","o","n","e","n","t","s">> >>,
    relevantProjectTypes |-> <<"web-app">>,
    techKeywords |-> << <<"H","T","M","L">>, <<"C","S","S">>, <<"J","a","v","a","S","c","r","i","p","t">> >>,
    hasResources |-> FALSE,
    priority |-> 3 ],
  [ id |-> "playwright-generate-test",
    name |-> <<"P","l","a","y","w","r","i","g","h","t"," ","T","e","s","t"," ","G","e","n","e","r","a","t","o","r">>,
    description |-> <<"G","e","n","e","r","a","t","e","s"," ","P","l","a","y","w","r","i","g","h","t"," ","E","2","E"," ","t","e","s","t"," ","s","c","e","n","a","r","i","o","s">>,
    categories |-> << <<"t","e","s","t","i","n","g">> >>,
    tags |-> << <<"p","l","a","y","w","r","i","g","h","t">>, <<"e","2","e">>, <<"t","e","s","t","-","g","e","n","e","r","a","t","i","o","n">> >>,
    relevantProjectTypes |-> <<"web-app">>,
    techKeywords |-> << <<"P","l","a","y","w","r","i","g","h","t">>, <<"T","y","p","e","S","c","r","i","p","t">> >>,
    hasResources |-> FALSE,
    priority |-> 2 ],
  [ id |-> "polyglot-test-agent",
    name |-> <<"P","o","l","y","g","l","o","t"," ","T","e","s","t"," ","A","g","e","n","t">>,
    description |-> <<"M","u","l","t","i","-","l","a","n","g","u","a","g","e"," ","t","e","s","t"," ","g","e","n","e","r","a","t","i","o","n">>,
    categories |-> << <<"t","e","s","t","i","n","g">> >>,
    tags |-> << <<"t","e","s","t","i","n","g">>, <<"p","o","l","y","g","l","o","t">>, <<"m","u","l","t","i","-","l","a","n","g","u","a","g","e">> >>,
    relevantProjectTypes |-> <<"*">>,
    techKeywords |-> <<  >>,
    hasResources |-> TRUE,
    priority |-> 2 ],
  [ id |-> "pytest-coverage",
    name |-> <<"P","y","t","e","s","t"," ","C","o","v","e","r","a","g","e">>,
    description |-> <<"P","y","t","h","o","n"," ","t","e","s","t"," ","c","o","v","e","r","a","g","e"," ","a","n","a","l","y","s","i","s"," ","w","i","t","h"," ","p","y","t","e","s","t">>,
    categories |-> << <<"t","e","s","t","i","n","g">> >>,
    tags |-> << <<"p","y","t","e","s","t">>, <<"c","o","v","e","r","a","g","e">>, <<"p","y","t","h","o","n">> >>,
    relevantProjectTypes |-> <<"api", "data-science">>,
    techKeywords |-> << <<"P","y","t","h","o","n">>, <<"p","y","t","e","s","t">> >>,
    hasResources |-> FALSE,
    priority |-> 3 ],
  [ id |-> "webapp-testing",
    name |-> <<"W","e","b"," ","A","p","p"," ","T","e","s","t","i","n","g">>,
    description |-> <<"W","e","b"," ","a","p","p","l","i","c","a","t","i","o","n"," ","t","e","s","t","i","n","g"," ","s","t","r","a","t","e","g","y"," ","a","n","d"," ","e","x","e","c","u","t","i","o","n">>,
    categories |-> << <<"t","e","s","t","i","n","g">> >>,
    tags |-> << <<"t","e","s","t","i","n","g">>, <<"w","e","b">>, <<"s","t","r","a","t","e","g","y">> >>,
    relevantProjectTypes |-> <<"web-app">>,
    techKeywords |-> <<  >>,
    hasResources |-> FALSE,
    priority |-> 2 ],
  [ id |-> "multi-stage-dockerfile",
    name |-> <<"M","u","l","t","i","-","S","t","a","g","e"," ","D","o","c","k","e","r","f","i","l","e">>,
    description |-> <<"C","r","e","a","t","e","s"," ","o","p","t","i","m","i","z","e","d"," ","m","u","l","t","i","-","s","t","a","g","e"," ","D","o","c","k","e","r","f","i","l","e","s">>,
    categories |-> << <<"d","e","v","o","p","s">>, <<"i","n","f","r","a","s","t","r","u","c","t","u","r","e">> >>,
    tags |-> << <<"d","o","c","k","e","r">>, <<"d","o","c","k","e","r","f","i","l","e">>, <<"m","u","l","t","i","-","s","t","a","g","e">>, <<"o","p","t","i","m","i","z","a","t","i","o","n">> >>,
    relevantProjectTypes |-> <<"devops", "api", "web-app">>,
    techKeywords |-> << <<"D","o","c","k","e","r">> >>,
    hasResources |-> FALSE,
    priority |-> 2 ],
  [ id |-> "devops-rollout-plan",
    name |-> <<"D","e","v","O","p","s"," ","R","o","l","l","o","u","t"," ","P","l","a","n">>,
    description |-> <<"C","r","e","a","t","e","s"," ","d","e","p","l","o","y","m","e","n","t"," ","r","o","l","l","o","u","t"," ","p","l","a","n","s">>,
    categories |-> << <<"d","e","v","o","p","s">> >>,
    tags |-> << <<"d","e","p","l","o","y","m","e","n","t">>, <<"r","o","l","l","o","u","t">>, <<"p","l","a","n","n","i","n","g">> >>,
    relevantProjectTypes |-> <<"devops">>,
    techKeywords |-> <<  >>,
    hasResources |-> FALSE,
    priority |-> 2 ],
  [ id |-> "containerize-aspnetcore",
    name |-> <<"C","o","n","t","a","i","n","e","r","i","z","e"," ","A","S","P",".","N","E","T"," ","C","o","r","e">>,
    description |-> <<"C","o","n","t","a","i","n","e","r","i","z","e","s"," ","A","S","P",".","N","E","T"," ","C","o","r","e"," ","a","p","p","l","i","c","a","t","i","o","n","s">>,
    categories |-> << <<"d","e","v","o","p","s">> >>,
    tags |-> << <<"c","o","n","t","a","i","n","e","r">>, <<"d","o","c","k","e","r">>, <<"a","s","p","n","e","t">> >>,
    relevantProjectTypes |-> <<"api", "web-app">>,
    techKeywords |-> << <<"A","S","P",".","N","E","T">>, <<".","N","E","T">>, <<"D","o","c","k","e","r">> >>,
    hasResources |-> FALSE,
    priority |-> 3 ],
  [ id |-> "refactor",
    name |-> <<"R","e","f","a","c","t","o","r">>,
    description |-> <<"C","o","d","e"," ","r","e","f","a","c","t","o","r","i","n","g"," ","g","u","i","d","a","n","c","e"," ","a","n","d"," ","e","x","e","c","u","t","i","o","n">>,
    categories |-> << <<"r","e","f","a","c","t","o","r">> >>,
    tags |-> << <<"r","e","f","a","c","t","o","r">>, <<"c","o","d","e","-","q","u","a","l","i","t","y">>, <<"i","m","p","r","o","v","e","m","e","n","t">> >>,
    relevantProjectTypes |-> <<"*">>,
    techKeywords |-> <<  >>,
    hasResources |-> FALSE,
    priority |-> 1 ],
  [ id |-> "refactor-plan",
    name |-> <<"R","e","f","a","c","t","o","r"," ","P","l","a","n">>,
    description |-> <<"C","r","e","a","t","e","s"," ","r","e","f","a","c","t","o","r","i","n","g"," ","p","l","a","n","s">>,
    categories |-> << <<"r","e","f","a","c","t","o","r">> >>,
    tags |-> << <<"r","e","f","a","c","t","o","r">>, <<"p","l","a","n","n","i","n","g">>, <<"s","t","r","a","t","e","g","y">> >>,
    relevantProjectTypes |-> <<"*">>,
    techKeywords |-> <<  >>,
    hasResources |-> FALSE,
    priority |-> 2 ],
  [ id |-> "context-map",
    name |-> <<"C","o","n","t","e","x","t"," ","M","a","p">>,
    description |-> <<"C","r","e","a","t","e","s"," ","c","o","n","t","e","x","t"," ","m","a","p","s"," ","f","o","r"," ","c","o","d","e","b","a","s","e","s">>,
    categories |-> << <<"a","n","a","l","y","s","i","s">> >>,
    tags |-> << <<"c","o","n","t","e","x","t">>, <<"m","a","p","p","i","n","g">>, <<"u","n","d","e","r","s","t","a","n","d","i","n","g">> >>,
    relevantProjectTypes |-> <<"*">>,
    techKeywords |-> <<  >>,
    hasResources |-> FALSE,
    priority |-> 1 ],
  [ id |-> "what-context-needed",
    name |-> <<"W","h","a","t"," ","C","o","n","t","e","x","t"," ","N","e","e","d","e","d">>,
    description |-> <<"I","d","e","n","t","i","f","i","e","s"," ","w","h","a","t"," ","c","o","n","t","e","x","t"," ","i","s"," ","n","e","e","d","e","d"," ","f","o","r"," ","a"," ","t","a","s","k">>,
    categories |-> << <<"a","n","a","l","y","s","i","s">> >>,
    tags |-> << <<"c","o","n","t","e","x","t">>, <<"a","n","a","l","y","s","i","s">>, <<"p","l","a","n","n","i","n","g">> >>,
    relevantProjectTypes |-> <<"*">>,
    techKeywords |-> <<  >>,
    hasResources |-> FALSE,
    priority |-> 2 ],
  [ id |-> "prompt-builder",
    name |-> <<"P","r","o","m","p","t"," ","B","u","i","l","d","e","r">>,
    description |-> <<"B","u","i","l","d","s"," ","a","n","d"," ","o","p","t","i","m","i","z","e","s"," ","p","r","o","m","p","t","s">>,
    categories |-> << <<"p","r","o","m","p","t">> >>,
    tags |-> << <<"p","r","o","m","p","t">>, <<"o","p","t","i","m","i","z","a","t","i","o","n">>, <<"e","n","g","i","n","e","e","r","i","n","g">> >>,
    relevantProjectTypes |-> <<"*">>,
    techKeywords |-> <<  >>,
    hasResources |-> FALSE,
    priority |-> 2 ],
  [ id |-> "boost-prompt",
    name |-> <<"B","o","o","s","t"," ","P","r","o","m","p","t">>,
    description |-> <<"E","n","h","a","n","c","e","s"," ","a","n","d"," ","i","m","p","r","o","v","e","s"," ","e","x","i","s","t","i","n","g"," ","p","r","o","m","p","t","s">>,
    categories |-> << <<"p","r","o","m","p","t">> >>,
    tags |-> << <<"p","r","o","m","p","t">>, <<"e","n","h","a","n","c","e","m","e","n","t">>, <<"i","m","p","r","o","v","e","m","e","n","t">> >>,
    relevantProjectTypes |-> <<"*">>,
    techKeywords |-> <<  >>,
    hasResources |-> FALSE,
    priority |-> 3 ],
  [ id |-> "editorconfig",
    name |-> <<"E","d","i","t","o","r","C","o","n","f","i","g">>,
    description |-> <<"C","r","e","a","t","e","s"," ",".","e","d","i","t","o","r","c","o","n","f","i","g"," ","f","i","l","e","s"," ","f","o","r"," ","c","o","n","s","i","s","t","e","n","t"," ","c","o","d","i","n","g"," ","s","t","y","l","e","s">>,
    categories |-> << <<"p","r","o","j","e","c","t","-","s","e","t","u","p">> >>,
    tags |-> << <<"e","d","i","t","o","r","c","o","n","f","i","g">>, <<"c","o","d","i","n","g","-","s","t","y","l","e">>, <<"c","o","n","s","i","s","t","e","n","c","y">> >>,
    relevantProjectTypes |-> <<"*">>,
    techKeywords |-> <<  >>,
    hasResources |-> FALSE,
    priority |-> 1 ],
  [ id |-> "create-github-action-workflow-specification",
    name |-> <<"G","i","t","H","u","b"," ","A","c","t","i","o","n","s"," ","W","o","r","k","f","l","o","w">>,
    description |-> <<"C","r","e","a","t","e","s"," ","G","i","t","H","u","b"," ","A","c","t","i","o","n","s"," ","w","o","r","k","f","l","o","w"," ","s","p","e","c","i","f","i","c","a","t","i","o","n","s">>,
    categories |-> << <<"d","e","v","o","p","s">>, <<"p","r","o","j","e","c","t","-","s","e","t","u","p">> >>,
    tags |-> << <<"g","i","t","h","u","b","-","a","c","t","i","o","n","s">>, <<"c","i">>, <<"w","o","r","k","f","l","o","w">> >>,
    relevantProjectTypes |-> <<"*">>,
    techKeywords |-> << <<"G","i","t","H","u","b"," ","A","c","t","i","o","n","s">> >>,
    hasResources |-> FALSE,
    priority |-> 2 ],
  [ id |-> "finalize-agent-prompt",
    name |-> <<"F","i","n","a","l","i","z","e"," ","A","g","e","n","t"," ","P","r","o","m","p","t">>,
    description |-> <<"F","i","n","a","l","i","z","e","s"," ","a","n","d"," ","p","o","l","i","s","h","e","s"," ","a","g","e","n","t"," ","p","r","o","m","p","t"," ","d","e","f","i","n","i","t","i","o","n","s">>,
    categories |-> << <<"p","r","o","m","p","t">>, <<"p","r","o","j","e","c","t","-","s","e","t","u","p">> >>,
    tags |-> << <<"a","g","e","n","t">>, <<"p","r","o","m","p","t">>, <<"f","i","n","a","l","i","z","a","t","i","o","n">> >>,
    relevantProjectTypes |-> <<"*">>,
    techKeywords |-> <<  >>,
    hasResources |-> FALSE,
    priority |-> 2 ],
  [ id |-> "dotnet-upgrade",
    name |-> <<".","N","E","T"," ","U","p","g","r","a","d","e">>,
    description |-> <<".","N","E","T"," ","f","r","a","m","e","w","o","r","k","/","v","e","r","s","i","o","n"," ","u","p","g","r","a","d","e"," ","a","s","s","i","s","t","a","n","c","e">>,
    categories |-> << <<"m","i","g","r","a","t","i","o","n">> >>,
    tags |-> << <<"d","o","t","n","e","t">>, <<"u","p","g","r","a","d","e">>, <<"m","i","g","r","a","t","i","o","n">> >>,
    relevantProjectTypes |-> <<"web-app", "api">>,
    techKeywords |-> << <<".","N","E","T">>, <<"C","#">> >>,
    hasResources |-> FALSE,
    priority |-> 3 ],
  [ id |-> "excalidraw-diagram-generator",
    name |-> <<"E","x","c","a","l","i","d","r","a","w"," ","D","i","a","g","r","a","m"," ","G","e","n","e","r","a","t","o","r">>,
    description |-> <<"G","e","n","e","r","a","t","e","s"," ","E","x","c","a","l","i","d","r","a","w"," ","d","i","a","g","r","a","m","s"," ","w","i","t","h"," ","t","e","m","p","l","a","t","e","s"," ","f","o","r"," ","v","a","r","i","o","u","s"," ","d","i","a","g","r","a","m"," ","t","y","p","e","s">>,
    categories |-> << <<"d","o","c","u","m","e","n","t","-","g","e","n">> >>,
    tags |-> << <<"e","x","c","a","l","i","d","r","a","w">>, <<"d","i","a","g","r","a","m","s">>, <<"v","i","s","u","a","l","i","z","a","t","i","o","n">> >>,
    relevantProjectTypes |-> <<"*">>,
    techKeywords |-> <<  >>,
    hasResources |-> TRUE,
    priority |-> 3 ],
  [ id |-> "aspire",
    name |-> <<".","N","E","T"," ","A","s","p","i","r","e">>,
    description |-> <<".","N","E","T"," ","A","s","p","i","r","e"," ","c","l","o","u","d","-","n","a","t","i","v","e"," ","a","p","p","l","i","c","a","t","i","o","n"," ","d","e","v","e","l","o","p","m","e","n","t">>,
    categories |-> << <<"p","l","a","t","f","o","r","m">> >>,
    tags |-> << <<"a","s","p","i","r","e">>, <<"d","o","t","n","e","t">>, <<"c","l","o","u","d","-","n","a","t","i","v","e">> >>,
    relevantProjectTypes |-> <<"api", "web-app">>,
    techKeywords |-> << <<".","N","E","T">>, <<"A","s","p","i","r","e">> >>,
    hasResources |-> TRUE,
    priority |-> 3 ]
  >>

(***************************************************************************)
(* String and array primitives                                             *)
(***************************************************************************)
\* The letters that toLowerCase changes, each with its lower-case form.
LowerCaseOf ==
     "A" :> "a" @@ "B" :> "b" @@ "C" :> "c" @@ "D" :> "d" @@ "E" :> "e" @@ "F" :> "f"
  @@ "G" :> "g" @@ "H" :> "h" @@ "I" :> "i" @@ "J" :> "j" @@ "K" :> "k" @@ "L" :> "l"
  @@ "M" :> "m" @@ "N" :> "n" @@ "O" :> "o" @@ "P" :> "p" @@ "Q" :> "q" @@ "R" :> "r"
  @@ "S" :> "s" @@ "T" :> "t" @@ "U" :> "u" @@ "V" :> "v" @@ "W" :> "w" @@ "X" :> "x"
  @@ "Y" :> "y" @@ "Z" :> "z"

\* One character of String.prototype.toLowerCase.
toLowerCaseChar(c) == IF c \in DOMAIN LowerCaseOf THEN LowerCaseOf[c] ELSE c

\* String.prototype.toLowerCase
toLowerCase(s) ==
  SubSeq([k \in 1..Len(s) |-> toLowerCaseChar(s[k])], 1, Len(s))

\* String.prototype.includes: needle occurs in haystack as a substring.
includes(haystack, needle) ==
  \E off \in 0..(Len(haystack) - Len(needle)) :
     \A k \in 1..Len(needle) : haystack[off + k] = needle[k]

\* Array.prototype.includes
arrayIncludes(arr, x) == \E k \in 1..Len(arr) : arr[k] = x

\* Array.prototype.slice(0, end)
slice(arr, end) ==
  LET len == Len(arr)
      final == IF end < 0 THEN (IF len + end < 0 THEN 0 ELSE len + end)
               ELSE (IF end > len THEN len ELSE end)
  IN  SubSeq(arr, 1, final)

(***************************************************************************)
(* recommendAgentSkills: scoring                                           *)
(***************************************************************************)
\* Variant: the tech stack is used as given, not lower-cased.
techStackAsGiven(techStack) == techStack

\* const techLower = techStack.map((t) => t.toLowerCase())
RECURSIVE techLowerOf(_)
techLowerOf(techStack) ==
  IF techStack = <<>> THEN <<>>
  ELSE <<toLowerCase(Head(techStack))>> \o techLowerOf(Tail(techStack))

\* Variant: the intent is used as given, not lower-cased.
userIntentAsGiven(userIntent) == userIntent

\* const intentLower = userIntent.toLowerCase()
intentLowerOf(userIntent) == toLowerCase(userIntent)

\* Variant: the wildcard is not honoured, only an exact project type.
projectTypeScoreExactOnly(entry, projectType) ==
  IF arrayIncludes(entry.relevantProjectTypes, projectType) THEN 10 ELSE 0

\* Project type match
projectTypeScore(entry, projectType) ==
  IF arrayIncludes(entry.relevantProjectTypes, "*")
     \/ arrayIncludes(entry.relevantProjectTypes, projectType)
  THEN 10 ELSE 0

\* Variant: only the stack item is searched for the keyword.
techMatchOneWay(t, keyword) == includes(t, toLowerCase(keyword))

\* t.includes(keyword.toLowerCase()) || keyword.toLowerCase().includes(t)
techMatch(t, keyword) ==
  includes(t, toLowerCase(keyword)) \/ includes(toLowerCase(keyword), t)

\* Variant: +5 for every stack item a keyword matches (no short-circuit).
keywordScorePerItem(techLower, keyword) ==
  5 * Cardinality({k \in 1..Len(techLower) : techMatch(techLower[k], keyword)})

\* One iteration of `for (const keyword of entry.techKeywords)`
keywordScore(techLower, keyword) ==
  IF \E k \in 1..Len(techLower) : techMatch(techLower[k], keyword)
  THEN 5 ELSE 0

\* The tech stack loop, from keyword number k on.
RECURSIVE techStackScore(_, _, _)
techStackScore(entry, techLower, k) ==
  IF k > Len(entry.techKeywords) THEN 0
  ELSE keywordScore(techLower, entry.techKeywords[k])
       + techStackScore(entry, techLower, k + 1)

\* Variant: receiver and argument of includes are swapped.
tagScoreSwapped(intentLower, tag) ==
  IF includes(tag, intentLower) THEN 3 ELSE 0

\* One iteration of `for (const tag of entry.tags)`
tagScore(intentLower, tag) ==
  IF includes(intentLower, tag) THEN 3 ELSE 0

\* The intent/tag loop, from tag number k on.
RECURSIVE intentScore(_, _, _)
intentScore(entry, intentLower, k) ==
  IF k > Len(entry.tags) THEN 0
  ELSE tagScore(intentLower, entry.tags[k])
       + intentScore(entry, intentLower, k + 1)

\* Variant: the bonus grows with the priority number.
priorityBonusInverted(entry) == entry.priority * 2

\* Variant: the parentheses of the priority bonus are lost.
priorityBonusUnparenthesised(entry) == 4 - entry.priority * 2

\* Priority bonus
priorityBonus(entry) == (4 - entry.priority) * 2

\* The body of the map callback: the score of one registry entry.
score(entry, projectType, techLower, intentLower) ==
    projectTypeScore(entry, projectType)
  + techStackScore(entry, techLower, 1)
  + intentScore(entry, intentLower, 1)
  + priorityBonus(entry)

\* REGISTRY.map((entry) => ({ entry, score })): the scores in declaration
\* order.  (SubSeq only turns the result into an explicit tuple.)
scoreAll(registry, projectType, techLower, intentLower) ==
  SubSeq([k \in 1..Len(registry) |->
            score(registry[k], projectType, techLower, intentLower)],
         1, Len(registry))

(***************************************************************************)
(* recommendAgentSkills: ranking                                           *)
(***************************************************************************)
\* Variant: the filter asks for more than the largest priority bonus, that
\* is, for some relevance signal.
filterRelevant(scored) == SelectSeq(scored, LAMBDA s : s.score > 6)

\* .filter((s) => s.score > 0)
filterPositive(scored) == SelectSeq(scored, LAMBDA s : s.score > 0)

\* Variant: the comparator sorts ascending.
compareAscending(a, b) == a.score - b.score

\* (a, b) => b.score - a.score
compare(a, b) == b.score - a.score

\* Variant: an unstable sort that puts later ties first.
sortedPositionUnstable(arr, k) ==
  1 + Cardinality({j \in 1..Len(arr) :
                     \/ (arr[k].score - arr[j].score) < 0
                     \/ ((arr[k].score - arr[j].score) = 0 /\ j > k)})

\* Position that Array.prototype.sort gives the element at position k: it
\* is preceded by the elements the comparator orders before it and, the sort
\* being stable (ES2019), by the earlier elements the comparator ties with it.
sortedPosition(arr, k) ==
  1 + Cardinality({j \in 1..Len(arr) :
                     \/ compare(arr[j], arr[k]) < 0
                     \/ (compare(arr[j], arr[k]) = 0 /\ j < k)})

\* Array.prototype.sort with the comparator above.  (SubSeq only turns the
\* table of positions into an explicit tuple, computed once.)
sort(arr) ==
  LET n   == Len(arr)
      pos == SubSeq([k \in 1..n |-> sortedPosition(arr, k)], 1, n)
  IN  [p \in 1..n |-> arr[CHOOSE k \in 1..n : pos[k] = p]]

\* .map((s) => s.agent) / .map((s) => s.skill): an entry is named by its
\* position in the registry (object identity).
project(scored) == [k \in 1..Len(scored) |-> scored[k].idx]

\* Variant: the array is truncated before it is sorted.
rankTruncatedFirst(scores, max) ==
  LET scored == SubSeq([k \in 1..Len(scores) |-> [idx |-> k, score |-> scores[k]]],
                       1, Len(scores))
  IN  project(sort(slice(filterPositive(scored), max)))

\* The chain applied to the mapped array: filter, sort, slice, map.
rank(scores, max) ==
  LET scored == SubSeq([k \in 1..Len(scores) |-> [idx |-> k, score |-> scores[k]]],
                       1, Len(scores))
  IN  project(slice(sort(filterPositive(scored)), max))

(***************************************************************************)
(* recommendAgentSkills / searchAgentSkills: summary                       *)
(***************************************************************************)
\* `  - **${a.name}** (\`${a.id}\`): ${a.description}`: the three parts
\* that the line interpolates.
summaryLine(entry) == <<entry.name, entry.id, entry.description>>

\* list.map(line).join("\n") || "  없음": the lines of the listed entries,
\* or the placeholder when the list is empty.
summaryList(registry, list) ==
  IF list = <<>> THEN "none"
  ELSE SubSeq([k \in 1..Len(list) |-> summaryLine(registry[list[k]])], 1, Len(list))

\* techStack.join(", ") || "미지정": the items, or the placeholder when the
\* joined text is empty (no item, or a single empty item).
summaryTech(techStack) ==
  IF techStack = <<>> \/ techStack = << <<>> >> THEN "unspecified" ELSE techStack

\* The summary template of recommendAgentSkills, as its interpolated parts.
recommendSummary(projectType, techStack, agentRegistry, agents, skillRegistry, skills) ==
  [ projectType |-> projectType,
    tech        |-> summaryTech(techStack),
    agentCount  |-> Len(agents),
    agentList   |-> summaryList(agentRegistry, agents),
    skillCount  |-> Len(skills),
    skillList   |-> summaryList(skillRegistry, skills) ]

\* The summary template of searchAgentSkills, as its interpolated parts.
searchSummary(query, agentRegistry, agents, skillRegistry, skills) ==
  [ query      |-> query,
    agentCount |-> Len(agents),
    agentList  |-> summaryList(agentRegistry, agents),
    skillCount |-> Len(skills),
    skillList  |-> summaryList(skillRegistry, skills) ]

(***************************************************************************)
(* recommendAgentSkills: what the ranking does to the registry             *)
(***************************************************************************)
\* Variant: the registry itself is sorted (REGISTRY.sort(...) in place).
registrySortedInPlace(registry, scores) ==
  LET order == rank(scores, Len(scores))
  IN  SubSeq([p \in 1..Len(order) |-> registry[order[p]]], 1, Len(order))

\* REGISTRY.map(...) builds a new array; filter, sort and slice work on it
\* and the registry stays as it is.
registryAfterRanking(registry, scores) == registry

(***************************************************************************)
(* searchAgentSkills                                                       *)
(***************************************************************************)
\* Variant: an empty query matches nothing.
matchesNonEmptyQuery(entry, q) ==
  /\ q # <<>>
  /\ \/ includes(toLowerCase(entry.name), q)
     \/ includes(toLowerCase(entry.description), q)
     \/ \E k \in 1..Len(entry.tags) : includes(entry.tags[k], q)
     \/ \E k \in 1..Len(entry.categories) : includes(entry.categories[k], q)

\* Variant: the tech keywords are searched too.
matchesQueryOrKeyword(entry, q) ==
  \/ includes(toLowerCase(entry.name), q)
  \/ includes(toLowerCase(entry.description), q)
  \/ \E k \in 1..Len(entry.tags) : includes(entry.tags[k], q)
  \/ \E k \in 1..Len(entry.categories) : includes(entry.categories[k], q)
  \/ \E k \in 1..Len(entry.techKeywords) : includes(toLowerCase(entry.techKeywords[k]), q)

\* Variant: the description is not searched.
matchesQueryWithoutDescription(entry, q) ==
  \/ includes(toLowerCase(entry.name), q)
  \/ \E k \in 1..Len(entry.tags) : includes(entry.tags[k], q)
  \/ \E k \in 1..Len(entry.categories) : includes(entry.categories[k], q)

\* The filter callback: q is the lower-cased query.
matchesQuery(entry, q) ==
  \/ includes(toLowerCase(entry.name), q)
  \/ includes(toLowerCase(entry.description), q)
  \/ \E k \in 1..Len(entry.tags) : includes(entry.tags[k], q)
  \/ \E k \in 1..Len(entry.categories) : includes(entry.categories[k], q)

\* REGISTRY.filter(callback): the matching entries, named by their position
\* in the registry, in registry order.
searchRegistry(registry, q) ==
  LET positions == SubSeq([k \in 1..Len(registry) |-> k], 1, Len(registry))
  IN  SelectSeq(positions, LAMBDA k : matchesQuery(registry[k], q))

(***************************************************************************)
(* listCategories                                                          *)
(***************************************************************************)
\* UTF-16 code units of the characters that category names are made of.
CodeUnit ==
     "-" :> 45
  @@ "a" :> 97  @@ "b" :> 98  @@ "c" :> 99  @@ "d" :> 100 @@ "e" :> 101
  @@ "f" :> 102 @@ "g" :> 103 @@ "h" :> 104 @@ "i" :> 105 @@ "j" :> 106
  @@ "k" :> 107 @@ "l" :> 108 @@ "m" :> 109 @@ "n" :> 110 @@ "o" :> 111
  @@ "p" :> 112 @@ "q" :> 113 @@ "r" :> 114 @@ "s" :> 115 @@ "t" :> 116
  @@ "u" :> 117 @@ "v" :> 118 @@ "w" :> 119 @@ "x" :> 120 @@ "y" :> 121
  @@ "z" :> 122

\* Variant: strings are ordered by length first.
stringLessByLength(a, b) ==
  \/ Len(a) < Len(b)
  \/ /\ Len(a) = Len(b)
     /\ \E k \in 1..Len(a) :
          /\ \A j \in 1..(k - 1) : a[j] = b[j]
          /\ CodeUnit[a[k]] < CodeUnit[b[k]]

\* a < b on strings: the default order of Array.prototype.sort, by UTF-16
\* code units, a proper prefix first.
stringLess(a, b) ==
  \/ \E k \in 1..(IF Len(a) < Len(b) THEN Len(a) ELSE Len(b)) :
       /\ \A j \in 1..(k - 1) : a[j] = b[j]
       /\ CodeUnit[a[k]] < CodeUnit[b[k]]
  \/ /\ Len(a) < Len(b)
     /\ \A j \in 1..Len(a) : a[j] = b[j]

\* a.categories.forEach((c) => set.add(c)): the categories of one entry in
\* the order in which they are added.
categoriesOfEntry(entry) == entry.categories

\* for (const a of REGISTRY) ...: the categories in the order in which they
\* are added, from entry number k on.
RECURSIVE categoriesOf(_, _)
categoriesOf(registry, k) ==
  IF k > Len(registry) THEN <<>>
  ELSE categoriesOfEntry(registry[k]) \o categoriesOf(registry, k + 1)

\* Set.prototype.add over the sequence: each value once, in the order of
\* its first insertion.
setOf(added) ==
  LET positions == SubSeq([k \in 1..Len(added) |-> k], 1, Len(added))
      first     == SelectSeq(positions,
                             LAMBDA k : \A j \in 1..(k - 1) : added[j] # added[k])
  IN  SubSeq([p \in 1..Len(first) |-> added[first[p]]], 1, Len(first))

\* [...set].sort(): the position of element k is one more than the number
\* of elements that are smaller or, being equal, earlier.
sortStrings(arr) ==
  LET n   == Len(arr)
      pos == SubSeq([k \in 1..n |->
                       1 + Cardinality({j \in 1..n :
                                          \/ stringLess(arr[j], arr[k])
                                          \/ (arr[j] = arr[k] /\ j < k)})], 1, n)
  IN  SubSeq([p \in 1..n |-> arr[CHOOSE k \in 1..n : pos[k] = p]], 1, n)

\* The list of distinct categories of one registry, sorted.
categoriesSorted(registry) == sortStrings(setOf(categoriesOf(registry, 1)))

(***************************************************************************)
(* generateAgentSkills                                                     *)
(***************************************************************************)
\* The characters of each id of the two registries, as a template literal
\* interpolates them.
IdChars ==
     "plan" :> <<"p","l","a","n">>
  @@ "planner" :> <<"p","l","a","n","n","e","r">>
  @@ "task-planner" :> <<"t","a","s","k","-","p","l","a","n","n","e","r">>
  @@ "context-architect" :> <<"c","o","n","t","e","x","t","-","a","r","c","h","i","t","e","c","t">>
  @@ "repo-architect" :> <<"r","e","p","o","-","a","r","c","h","i","t","e","c","t">>
  @@ "arch" :> <<"a","r","c","h">>
  @@ "blueprint-mode" :> <<"b","l","u","e","p","r","i","n","t","-","m","o","d","e">>
  @@ "implementation-plan" :> <<"i","m","p","l","e","m","e","n","t","a","t","i","o","n","-","p","l","a","n">>
  @@ "principal-software-engineer" :> <<"p","r","i","n","c","i","p","a","l","-","s","o","f","t","w","a","r","e","-","e","n","g","i","n","e","e","r">>
  @@ "software-engineer-agent-v1" :> <<"s","o","f","t","w","a","r","e","-","e","n","g","i","n","e","e","r","-","a","g","e","n","t","-","v","1">>
  @@ "expert-nextjs-developer" :> <<"e","x","p","e","r","t","-","n","e","x","t","j","s","-","d","e","v","e","l","o","p","e","r">>
  @@ "expert-react-frontend-engineer" :> <<"e","x","p","e","r","t","-","r","e","a","c","t","-","f","r","o","n","t","e","n","d","-","e","n","g","i","n","e","e","r">>
  @@ "expert-cpp-software-engineer" :> <<"e","x","p","e","r","t","-","c","p","p","-","s","o","f","t","w","a","r","e","-","e","n","g","i","n","e","e","r">>
  @@ "expert-dotnet-software-engineer" :> <<"e","x","p","e","r","t","-","d","o","t","n","e","t","-","s","o","f","t","w","a","r","e","-","e","n","g","i","n","e","e","r">>
  @@ "api-architect" :> <<"a","p","i","-","a","r","c","h","i","t","e","c","t">>
  @@ "debug" :> <<"d","e","b","u","g">>
  @@ "playwright-tester" :> <<"p","l","a","y","w","r","i","g","h","t","-","t","e","s","t","e","r">>
  @@ "polyglot-test-builder" :> <<"p","o","l","y","g","l","o","t","-","t","e","s","t","-","b","u","i","l","d","e","r">>
  @@ "tdd-red" :> <<"t","d","d","-","r","e","d">>
  @@ "tdd-green" :> <<"t","d","d","-","g","r","e","e","n">>
  @@ "tdd-refactor" :> <<"t","d","d","-","r","e","f","a","c","t","o","r">>
  @@ "devops-expert" :> <<"d","e","v","o","p","s","-","e","x","p","e","r","t">>
  @@ "platform-sre-kubernetes" :> <<"p","l","a","t","f","o","r","m","-","s","r","e","-","k","u","b","e","r","n","e","t","e","s">>
  @@ "github-actions-expert" :> <<"g","i","t","h","u","b","-","a","c","t","i","o","n","s","-","e","x","p","e","r","t">>
  @@ "terraform" :> <<"t","e","r","r","a","f","o","r","m">>
  @@ "se-technical-writer" :> <<"s","e","-","t","e","c","h","n","i","c","a","l","-","w","r","i","t","e","r">>
  @@ "gem-documentation-writer" :> <<"g","e","m","-","d","o","c","u","m","e","n","t","a","t","i","o","n","-","w","r","i","t","e","r">>
  @@ "gem-reviewer" :> <<"g","e","m","-","r","e","v","i","e","w","e","r">>
  @@ "se-security-reviewer" :> <<"s","e","-","s","e","c","u","r","i","t","y","-","r","e","v","i","e","w","e","r">>
  @@ "se-system-architecture-reviewer" :> <<"s","e","-","s","y","s","t","e","m","-","a","r","c","h","i","t","e","c","t","u","r","e","-","r","e","v","i","e","w","e","r">>
  @@ "critical-thinking" :> <<"c","r","i","t","i","c","a","l","-","t","h","i","n","k","i","n","g">>
  @@ "devils-advocate" :> <<"d","e","v","i","l","s","-","a","d","v","o","c","a","t","e">>
  @@ "prompt-engineer" :> <<"p","r","o","m","p","t","-","e","n","g","i","n","e","e","r">>
  @@ "meta-agentic-project-scaffold" :> <<"m","e","t","a","-","a","g","e","n","t","i","c","-","p","r","o","j","e","c","t","-","s","c","a","f","f","o","l","d">>
  @@ "custom-agent-foundry" :> <<"c","u","s","t","o","m","-","a","g","e","n","t","-","f","o","u","n","d","r","y">>
  @@ "typescript-mcp-expert" :> <<"t","y","p","e","s","c","r","i","p","t","-","m","c","p","-","e","x","p","e","r","t">>
  @@ "python-mcp-expert" :> <<"p","y","t","h","o","n","-","m","c","p","-","e","x","p","e","r","t">>
  @@ "azure-principal-architect" :> <<"a","z","u","r","e","-","p","r","i","n","c","i","p","a","l","-","a","r","c","h","i","t","e","c","t">>
  @@ "ms-sql-dba" :> <<"m","s","-","s","q","l","-","d","b","a">>
  @@ "postgresql-dba" :> <<"p","o","s","t","g","r","e","s","q","l","-","d","b","a">>
  @@ "electron-angular-native" :> <<"e","l","e","c","t","r","o","n","-","a","n","g","u","l","a","r","-","n","a","t","i","v","e">>
  @@ "dotnet-maui" :> <<"d","o","t","n","e","t","-","m","a","u","i">>
  @@ "prd" :> <<"p","r","d">>
  @@ "specification" :> <<"s","p","e","c","i","f","i","c","a","t","i","o","n">>
  @@ "gem-orchestrator" :> <<"g","e","m","-","o","r","c","h","e","s","t","r","a","t","o","r">>
  @@ "gem-implementer" :> <<"g","e","m","-","i","m","p","l","e","m","e","n","t","e","r">>
  @@ "gem-researcher" :> <<"g","e","m","-","r","e","s","e","a","r","c","h","e","r">>
  @@ "4.1-Beast" :> <<"4",".","1","-","B","e","a","s","t">>
  @@ "mentor" :> <<"m","e","n","t","o","r">>
  @@ "janitor" :> <<"j","a","n","i","t","o","r">>
  @@ "copilot-instructions-blueprint-generator" :> <<"c","o","p","i","l","o","t","-","i","n","s","t","r","u","c","t","i","o","n","s","-","b","l","u","e","p","r","i","n","t","-","g","e","n","e","r","a","t","o","r">>
  @@ "folder-structure-blueprint-generator" :> <<"f","o","l","d","e","r","-","s","t","r","u","c","t","u","r","e","-","b","l","u","e","p","r","i","n","t","-","g","e","n","e","r","a","t","o","r">>
  @@ "technology-stack-blueprint-generator" :> <<"t","e","c","h","n","o","l","o","g","y","-","s","t","a","c","k","-","b","l","u","e","p","r","i","n","t","-","g","e","n","e","r","a","t","o","r">>
  @@ "architecture-blueprint-generator" :> <<"a","r","c","h","i","t","e","c","t","u","r","e","-","b","l","u","e","p","r","i","n","t","-","g","e","n","e","r","a","t","o","r">>
  @@ "readme-blueprint-generator" :> <<"r","e","a","d","m","e","-","b","l","u","e","p","r","i","n","t","-","g","e","n","e","r","a","t","o","r">>
  @@ "code-exemplars-blueprint-generator" :> <<"c","o","d","e","-","e","x","e","m","p","l","a","r","s","-","b","l","u","e","p","r","i","n","t","-","g","e","n","e","r","a","t","o","r">>
  @@ "project-workflow-analysis-blueprint-generator" :> <<"p","r","o","j","e","c","t","-","w","o","r","k","f","l","o","w","-","a","n","a","l","y","s","i","s","-","b","l","u","e","p","r","i","n","t","-","g","e","n","e","r","a","t","o","r">>
  @@ "create-specification" :> <<"c","r","e","a","t","e","-","s","p","e","c","i","f","i","c","a","t","i","o","n">>
  @@ "create-implementation-plan" :> <<"c","r","e","a","t","e","-","i","m","p","l","e","m","e","n","t","a","t","i","o","n","-","p","l","a","n">>
  @@ "create-readme" :> <<"c","r","e","a","t","e","-","r","e","a","d","m","e">>
  @@ "create-agentsmd" :> <<"c","r","e","a","t","e","-","a","g","e","n","t","s","m","d">>
  @@ "create-architectural-decision-record" :> <<"c","r","e","a","t","e","-","a","r","c","h","i","t","e","c","t","u","r","a","l","-","d","e","c","i","s","i","o","n","-","r","e","c","o","r","d">>
  @@ "create-llms" :> <<"c","r","e","a","t","e","-","l","l","m","s">>
  @@ "conventional-commit" :> <<"c","o","n","v","e","n","t","i","o","n","a","l","-","c","o","m","m","i","t">>
  @@ "git-commit" :> <<"g","i","t","-","c","o","m","m","i","t">>
  @@ "git-flow-branch-creator" :> <<"g","i","t","-","f","l","o","w","-","b","r","a","n","c","h","-","c","r","e","a","t","o","r">>
  @@ "generate-custom-instructions-from-codebase" :> <<"g","e","n","e","r","a","t","e","-","c","u","s","t","o","m","-","i","n","s","t","r","u","c","t","i","o","n","s","-","f","r","o","m","-","c","o","d","e","b","a","s","e">>
  @@ "typescript-mcp-server-generator" :> <<"t","y","p","e","s","c","r","i","p","t","-","m","c","p","-","s","e","r","v","e","r","-","g","e","n","e","r","a","t","o","r">>
  @@ "python-mcp-server-generator" :> <<"p","y","t","h","o","n","-","m","c","p","-","s","e","r","v","e","r","-","g","e","n","e","r","a","t","o","r">>
  @@ "create-spring-boot-java-project" :> <<"c","r","e","a","t","e","-","s","p","r","i","n","g","-","b","o","o","t","-","j","a","v","a","-","p","r","o","j","e","c","t">>
  @@ "create-spring-boot-kotlin-project" :> <<"c","r","e","a","t","e","-","s","p","r","i","n","g","-","b","o","o","t","-","k","o","t","l","i","n","-","p","r","o","j","e","c","t">>
  @@ "create-web-form" :> <<"c","r","e","a","t","e","-","w","e","b","-","f","o","r","m">>
  @@ "playwright-generate-test" :> <<"p","l","a","y","w","r","i","g","h","t","-","g","e","n","e","r","a","t","e","-","t","e","s","t">>
  @@ "polyglot-test-agent" :> <<"p","o","l","y","g","l","o","t","-","t","e","s","t","-","a","g","e","n","t">>
  @@ "pytest-coverage" :> <<"p","y","t","e","s","t","-","c","o","v","e","r","a","g","e">>
  @@ "webapp-testing" :> <<"w","e","b","a","p","p","-","t","e","s","t","i","n","g">>
  @@ "multi-stage-dockerfile" :> <<"m","u","l","t","i","-","s","t","a","g","e","-","d","o","c","k","e","r","f","i","l","e">>
  @@ "devops-rollout-plan" :> <<"d","e","v","o","p","s","-","r","o","l","l","o","u","t","-","p","l","a","n">>
  @@ "containerize-aspnetcore" :> <<"c","o","n","t","a","i","n","e","r","i","z","e","-","a","s","p","n","e","t","c","o","r","e">>
  @@ "refactor" :> <<"r","e","f","a","c","t","o","r">>
  @@ "refactor-plan" :> <<"r","e","f","a","c","t","o","r","-","p","l","a","n">>
  @@ "context-map" :> <<"c","o","n","t","e","x","t","-","m","a","p">>
  @@ "what-context-needed" :> <<"w","h","a","t","-","c","o","n","t","e","x","t","-","n","e","e","d","e","d">>
  @@ "prompt-builder" :> <<"p","r","o","m","p","t","-","b","u","i","l","d","e","r">>
  @@ "boost-prompt" :> <<"b","o","o","s","t","-","p","r","o","m","p","t">>
  @@ "editorconfig" :> <<"e","d","i","t","o","r","c","o","n","f","i","g">>
  @@ "create-github-action-workflow-specification" :> <<"c","r","e","a","t","e","-","g","i","t","h","u","b","-","a","c","t","i","o","n","-","w","o","r","k","f","l","o","w","-","s","p","e","c","i","f","i","c","a","t","i","o","n">>
  @@ "finalize-agent-prompt" :> <<"f","i","n","a","l","i","z","e","-","a","g","e","n","t","-","p","r","o","m","p","t">>
  @@ "dotnet-upgrade" :> <<"d","o","t","n","e","t","-","u","p","g","r","a","d","e">>
  @@ "excalidraw-diagram-generator" :> <<"e","x","c","a","l","i","d","r","a","w","-","d","i","a","g","r","a","m","-","g","e","n","e","r","a","t","o","r">>
  @@ "aspire" :> <<"a","s","p","i","r","e">>

\* The fixed parts of the paths.
pSkillsDir == <<".","g","i","t","h","u","b","/","s","k","i","l","l","s","/">>
pSkillMd == <<"/","S","K","I","L","L",".","m","d">>
pAgentsDir == <<".","g","i","t","h","u","b","/","a","g","e","n","t","s","/">>
pAgentMd == <<".","a","g","e","n","t",".","m","d">>
pSkillsIndex == <<".","g","i","t","h","u","b","/","A","G","E","N","T","-","S","K","I","L","L","S",".","m","d">>

\* `.github/skills/${skill.id}/SKILL.md` with the content of buildSkillMd.
skillFile(skill) ==
  [relativePath |-> pSkillsDir \o IdChars[skill.id] \o pSkillMd,
   content      |-> <<"buildSkillMd", skill.id>>]

\* `.github/agents/${agent.id}.agent.md` with the content of buildAgentMd.
agentFile(agent) ==
  [relativePath |-> pAgentsDir \o IdChars[agent.id] \o pAgentMd,
   content      |-> <<"buildAgentMd", agent.id>>]

\* generateSkillsIndex: the index of what was recommended.
skillsIndexFile == [relativePath |-> pSkillsIndex, content |-> <<"generateSkillsIndex">>]

\* The files pushed by generateAgentSkills: one for each skill and then one
\* for each agent, in list order (the lists name the entries by their
\* registry positions), then the index.
agentSkillFiles(agentRegistry, agents, skillRegistry, skills) ==
  [k \in 1..Len(skills) |-> skillFile(skillRegistry[skills[k]])]
    \o [k \in 1..Len(agents) |-> agentFile(agentRegistry[agents[k]])]
    \o <<skillsIndexFile>>

(***************************************************************************)
(* Optional arguments                                                      *)
(***************************************************************************)
\* A destructuring default (name = default) or options?.name ?? default on
\* an argument of the declared type: the default stands in exactly when the
\* caller left the argument out.
optionOrDefault(name, value, default, omitted) ==
  IF name \in omitted THEN default ELSE value

\* Variant: the default also replaces a cap of 0 (value || default).
capOrDefaultWhenFalsy(name, value, default, omitted) ==
  IF name \in omitted \/ value = 0 THEN default ELSE value

\* The same for maxAgents and maxSkills.
capOrDefault(name, value, default, omitted) ==
  IF name \in omitted THEN default ELSE value

(***************************************************************************)
(* Generated files                                                         *)
(***************************************************************************)
\* relativePath literals of the generators.
pCopilotInstructions ==
  <<".", "g", "i", "t", "h", "u", "b", "/", "c", "o", "p", "i", "l", "o",
    "t", "-", "i", "n", "s", "t", "r", "u", "c", "t", "i", "o", "n", "s",
    ".", "m", "d">>

pSettings ==
  <<".", "v", "s", "c", "o", "d", "e", "/", "s", "e", "t", "t", "i", "n",
    "g", "s", ".", "j", "s", "o", "n">>

pCodeGeneration ==
  <<".", "v", "s", "c", "o", "d", "e", "/", "c", "o", "d", "e", "-", "g",
    "e", "n", "e", "r", "a", "t", "i", "o", "n", ".", "i", "n", "s", "t",
    "r", "u", "c", "t", "i", "o", "n", "s", ".", "m", "d">>

pTestGeneration ==
  <<".", "v", "s", "c", "o", "d", "e", "/", "t", "e", "s", "t", "-", "g",
    "e", "n", "e", "r", "a", "t", "i", "o", "n", ".", "i", "n", "s", "t",
    "r", "u", "c", "t", "i", "o", "n", "s", ".", "m", "d">>

pCodeReview ==
  <<".", "v", "s", "c", "o", "d", "e", "/", "c", "o", "d", "e", "-", "r",
    "e", "v", "i", "e", "w", ".", "i", "n", "s", "t", "r", "u", "c", "t",
    "i", "o", "n", "s", ".", "m", "d">>

pCommitMessage ==
  <<".", "v", "s", "c", "o", "d", "e", "/", "c", "o", "m", "m", "i", "t",
    "-", "m", "e", "s", "s", "a", "g", "e", ".", "i", "n", "s", "t", "r",
    "u", "c", "t", "i", "o", "n", "s", ".", "m", "d">>

pPrDescription ==
  <<".", "v", "s", "c", "o", "d", "e", "/", "p", "r", "-", "d", "e", "s",
    "c", "r", "i", "p", "t", "i", "o", "n", ".", "i", "n", "s", "t", "r",
    "u", "c", "t", "i", "o", "n", "s", ".", "m", "d">>

pWorkLogsReadme ==
  <<"d", "o", "c", "s", "/", "w", "o", "r", "k", "-", "l", "o", "g", "s",
    "/", "R", "E", "A", "D", "M", "E", ".", "m", "d">>

pTroubleshootingReadme ==
  <<"d", "o", "c", "s", "/", "t", "r", "o", "u", "b", "l", "e", "s", "h",
    "o", "o", "t", "i", "n", "g", "/", "R", "E", "A", "D", "M", "E", ".",
    "m", "d">>

pChangelogReadme ==
  <<"d", "o", "c", "s", "/", "c", "h", "a", "n", "g", "e", "l", "o", "g",
    "/", "R", "E", "A", "D", "M", "E", ".", "m", "d">>

pAdrReadme ==
  <<"d", "o", "c", "s", "/", "a", "d", "r", "/", "R", "E", "A", "D", "M",
    "E", ".", "m", "d">>

pDocs == <<"d", "o", "c", "s", "/">>

pReadme == <<"/", "R", "E", "A", "D", "M", "E", ".", "m", "d">>

pChangelogDir ==
  <<"d", "o", "c", "s", "/", "c", "h", "a", "n", "g", "e", "l", "o", "g",
    "/">>

pMd == <<".", "m", "d">>

pWorkLogsDir ==
  <<"d", "o", "c", "s", "/", "w", "o", "r", "k", "-", "l", "o", "g", "s",
    "/">>

pSetupWorkLog ==
  <<"-", "U+C6CC", "U+D06C", "U+C2A4", "U+D398", "U+C774", "U+C2A4", "-",
    "U+CD08", "U+AE30", "-", "U+C124", "U+C815", ".", "m", "d">>

\* The section names, as strings of characters.
SectionChars ==
     "learning-notes" :> <<"l", "e", "a", "r", "n", "i", "n", "g", "-", "n", "o", "t", "e", "s">>
  @@ "api-docs" :> <<"a", "p", "i", "-", "d", "o", "c", "s">>
  @@ "component-docs" :> <<"c", "o", "m", "p", "o", "n", "e", "n", "t", "-", "d", "o", "c", "s">>
  @@ "design-docs" :> <<"d", "e", "s", "i", "g", "n", "-", "d", "o", "c", "s">>
  @@ "experiment-logs" :> <<"e", "x", "p", "e", "r", "i", "m", "e", "n", "t", "-", "l", "o", "g", "s">>
  @@ "dataset-docs" :> <<"d", "a", "t", "a", "s", "e", "t", "-", "d", "o", "c", "s">>
  @@ "infra-docs" :> <<"i", "n", "f", "r", "a", "-", "d", "o", "c", "s">>
  @@ "runbooks" :> <<"r", "u", "n", "b", "o", "o", "k", "s">>
  @@ "drafts" :> <<"d", "r", "a", "f", "t", "s">>
  @@ "references" :> <<"r", "e", "f", "e", "r", "e", "n", "c", "e", "s">>
  @@ "package-docs" :> <<"p", "a", "c", "k", "a", "g", "e", "-", "d", "o", "c", "s">>

\* The keys of DOC_SECTION_META.
DOC_SECTION_META ==
  {"learning-notes", "api-docs", "component-docs", "design-docs",
   "experiment-logs", "dataset-docs", "infra-docs", "runbooks",
   "drafts", "references", "package-docs"}

\* PROJECT_TYPE_CONFIGS: the docSections of each project type.
PROJECT_TYPE_CONFIGS ==
     "learning" :> [docSections |-> <<"learning-notes">>]
  @@ "web-app" :> [docSections |-> <<"api-docs", "component-docs">>]
  @@ "api" :> [docSections |-> <<"api-docs">>]
  @@ "mobile" :> [docSections |-> <<"design-docs">>]
  @@ "data-science" :> [docSections |-> <<"experiment-logs", "dataset-docs">>]
  @@ "devops" :> [docSections |-> <<"infra-docs", "runbooks">>]
  @@ "creative" :> [docSections |-> <<"drafts", "references">>]
  @@ "library" :> [docSections |-> <<"api-docs">>]
  @@ "monorepo" :> [docSections |-> <<"package-docs">>]
  @@ "other" :> [docSections |-> <<>>]

\* A GeneratedFile; the content is named by the generator and what it is
\* generated from.
GeneratedFile(relativePath, content) ==
  [relativePath |-> relativePath, content |-> content]

\* generateDocsStructure: the four fixed READMEs, then one README for each
\* doc section of the project type that has an entry in DOC_SECTION_META.
RECURSIVE sectionFiles(_, _)
sectionFiles(docSections, k) ==
  IF k > Len(docSections) THEN <<>>
  ELSE (IF docSections[k] \in DOC_SECTION_META
          THEN <<GeneratedFile(pDocs \o SectionChars[docSections[k]] \o pReadme,
                               <<"sectionMeta", docSections[k]>>)>>
          ELSE <<>>)
       \o sectionFiles(docSections, k + 1)

\* Variant: no README for the decision records.
generateDocsStructureWithoutAdr(params) ==
  LET config ==
        PROJECT_TYPE_CONFIGS[optionOrDefault("projectType", params.projectType,
                                             "other", params.omitted)]
  IN  <<GeneratedFile(pWorkLogsReadme, <<"work-logs">>),
        GeneratedFile(pTroubleshootingReadme, <<"troubleshooting">>),
        GeneratedFile(pChangelogReadme, <<"changelog">>)>>
      \o sectionFiles(config.docSections, 1)

generateDocsStructure(params) ==
  LET config ==
        PROJECT_TYPE_CONFIGS[optionOrDefault("projectType", params.projectType,
                                             "other", params.omitted)]
  IN  <<GeneratedFile(pWorkLogsReadme, <<"work-logs">>),
        GeneratedFile(pTroubleshootingReadme, <<"troubleshooting">>),
        GeneratedFile(pChangelogReadme, <<"changelog">>),
        GeneratedFile(pAdrReadme, <<"adr">>)>>
      \o sectionFiles(config.docSections, 1)

\* The character classes of slugify: [a-z0-9], the Hangul syllables (those
\* that the modelled names and paths use), white space, the hyphen.
SlugCharacters ==
  {LowerCaseOf[c] : c \in DOMAIN LowerCaseOf}
    \cup {"0", "1", "2", "3", "4", "5", "6", "7", "8", "9"}
    \cup {"U+C6CC", "U+D06C", "U+C2A4", "U+D398", "U+C774", "U+CD08", "U+AE30",
          "U+C124", "U+C815"}
WhiteSpace == {" ", "\t", "\n"}

\* .replace(/[^a-z0-9가-힣\s-]/g, "")
RECURSIVE removeOthers(_)
removeOthers(text) ==
  IF text = <<>> THEN <<>>
  ELSE (IF Head(text) \in SlugCharacters \cup WhiteSpace \cup {"-"}
          THEN <<Head(text)>> ELSE <<>>)
       \o removeOthers(Tail(text))

RECURSIVE dropWhile(_, _)
dropWhile(text, class) ==
  IF text # <<>> /\ Head(text) \in class THEN dropWhile(Tail(text), class)
  ELSE text

\* .replace(/\s+/g, "-") and .replace(/-+/g, "-"): every maximal run of
\* characters of the class becomes one hyphen.
RECURSIVE replaceRuns(_, _)
replaceRuns(text, class) ==
  IF text = <<>> THEN <<>>
  ELSE IF Head(text) \in class
         THEN <<"-">> \o replaceRuns(dropWhile(Tail(text), class), class)
         ELSE <<Head(text)>> \o replaceRuns(Tail(text), class)

\* String.prototype.trim
RECURSIVE trimEnd(_)
trimEnd(text) ==
  IF text # <<>> /\ text[Len(text)] \in WhiteSpace
    THEN trimEnd(SubSeq(text, 1, Len(text) - 1))
    ELSE text

trim(text) == trimEnd(dropWhile(text, WhiteSpace))

\* Variant: the slug keeps the case of the name.
slugifyKeepingCase(text) ==
  trim(replaceRuns(replaceRuns(text, WhiteSpace), {"-"}))

\* slugify(text)
slugify(text) ==
  trim(replaceRuns(replaceRuns(removeOthers(toLowerCase(text)), WhiteSpace),
                   {"-"}))

\* generateInitialChangelog: `docs/changelog/${slugify(workspaceName)}.md`
generateInitialChangelog(params, relativePaths) ==
  GeneratedFile(pChangelogDir \o slugify(params.workspaceName) \o pMd,
                <<"generateInitialChangelog", Len(relativePaths)>>)

\* generateSetupWorkLog: `docs/work-logs/${today}-...md`, today being the
\* date part of new Date().toISOString().
generateSetupWorkLog(params, relativePaths, today) ==
  GeneratedFile(pWorkLogsDir \o today \o pSetupWorkLog,
                <<"generateSetupWorkLog", Len(relativePaths)>>)

\* recommendAgentSkills as a function of its options.
recommended(registry, type, stack, intent, max) ==
  rank(scoreAll(registry, type, techLowerOf(stack), intentLowerOf(intent)),
       max)

\* generateAgentSkills(params, options) as a function: the files of the
\* skills and the agents that recommendAgentSkills returns, then the index.
generatedAgentSkills(params, options) ==
  LET type   == optionOrDefault("projectType", params.projectType, "other",
                                params.omitted)
      stack  == optionOrDefault("techStack", params.techStack, <<>>,
                                params.omitted)
      intent == optionOrDefault("userIntent", options.userIntent,
                                params.purpose, options.omitted)
      maxA   == capOrDefault("maxAgents", options.maxAgents, 8, options.omitted)
      maxS   == capOrDefault("maxSkills", options.maxSkills, 12, options.omitted)
  IN  agentSkillFiles(AGENT_REGISTRY,
                      recommended(AGENT_REGISTRY, type, stack, intent, maxA),
                      SKILL_REGISTRY,
                      recommended(SKILL_REGISTRY, type, stack, intent, maxS))

relativePathsOf(files) == [k \in 1..Len(files) |-> files[k].relativePath]

\* collectFiles(params), on the date today.
collectFiles(params, today) ==
  LET files ==
           <<GeneratedFile(pCopilotInstructions, <<"generateCopilotInstructions">>),
             GeneratedFile(pSettings, <<"generateSettings">>),
             GeneratedFile(pCodeGeneration, <<"generateCodeGenInstructions">>),
             GeneratedFile(pTestGeneration, <<"generateTestInstructions">>),
             GeneratedFile(pCodeReview, <<"generateReviewInstructions">>),
             GeneratedFile(pCommitMessage, <<"generateCommitInstructions">>),
             GeneratedFile(pPrDescription, <<"generatePRInstructions">>)>>
        \o generateDocsStructure(params)
        \o (IF "includeAgentSkills" \in params.omitted \/ params.includeAgentSkills
              THEN generatedAgentSkills(params,
                     [userIntent |-> params.agentSkillsIntent,
                      maxAgents |-> 0, maxSkills |-> 0,
                      omitted |-> {"maxAgents", "maxSkills", "skillIds", "agentIds"}
                                    \cup (IF "agentSkillsIntent" \in params.omitted
                                            THEN {"userIntent"} ELSE {})])
              ELSE <<>>)
      relativePaths == relativePathsOf(files)
  IN  files \o <<generateInitialChangelog(params, relativePaths),
                 generateSetupWorkLog(params,
                   relativePaths \o <<"docs/changelog/...", "docs/work-logs/...">>,
                   today)>>

(***************************************************************************)
(* The file system under workspacePath                                     *)
(***************************************************************************)
\* A file system: the content of each file and the set of directories,
\* both by path relative to workspacePath.
slashes(path) == {k \in 1..Len(path) : path[k] = "/"}

\* The directories above a path.
ancestors(path) == {SubSeq(path, 1, k - 1) : k \in slashes(path)}

\* path.dirname
dirname(path) ==
  IF slashes(path) = {} THEN <<".">>
  ELSE SubSeq(path, 1, (CHOOSE k \in slashes(path) :
                          \A j \in slashes(path) : j <= k) - 1)

isFile(fs, path) == path \in DOMAIN fs.files

isDirectory(fs, path) == path \in fs.dirs \/ path = <<".">>

\* fs.existsSync
existsSync(fs, path) == isFile(fs, path) \/ isDirectory(fs, path)

\* fs.mkdirSync(dir, { recursive: true }): creates the missing directories
\* from the top down and throws at the first path on the way that is a file.
mkdirSync(fs, dir) ==
  LET chain   == IF dir = <<".">> THEN {} ELSE ancestors(dir) \cup {dir}
      blocked == {a \in chain : isFile(fs, a)}
      made    == {a \in chain : \A b \in blocked : Len(a) < Len(b)}
  IN  [threw |-> blocked # {},
       fs    |-> [fs EXCEPT !.dirs = @ \cup made]]

\* fs.writeFileSync(path, content): throws where the path is a directory,
\* creates or replaces the file otherwise.
writeFileSync(fs, path, content) ==
  IF isDirectory(fs, path)
    THEN [threw |-> TRUE, fs |-> fs]
    ELSE [threw |-> FALSE,
          fs    |-> [fs EXCEPT !.files = (path :> content) @@ @]]

(***************************************************************************)
(* initialize_workspace: the write loop                                    *)
(***************************************************************************)
\* Variant: an existing file is skipped whatever force says.
skipsAlways(force, exists) == exists

\* !force && fs.existsSync(fullPath)
skips(force, exists) == ~force /\ exists

noneWritten(fs) ==
  [fs |-> fs, written |-> <<>>, skipped |-> <<>>, errors |-> <<>>,
   threw |-> FALSE]

\* Variant: the catch rethrows.
writeOneRethrowing(st, file, force) ==
  LET path    == file.relativePath
      mkdir   == mkdirSync(st.fs, dirname(path))
      write   == writeFileSync(mkdir.fs, path, file.content)
  IN  IF mkdir.threw
        THEN [st EXCEPT !.fs = mkdir.fs, !.threw = TRUE]
      ELSE IF skips(force, existsSync(mkdir.fs, path))
        THEN [st EXCEPT !.fs = mkdir.fs, !.skipped = Append(@, path)]
      ELSE IF write.threw
        THEN [st EXCEPT !.fs = write.fs, !.threw = TRUE]
      ELSE [st EXCEPT !.fs = write.fs, !.written = Append(@, path)]

\* One iteration of the loop: the body of the try and the catch.
writeOne(st, file, force) ==
  LET path    == file.relativePath
      mkdir   == mkdirSync(st.fs, dirname(path))
      write   == writeFileSync(mkdir.fs, path, file.content)
  IN  IF mkdir.threw
        THEN [st EXCEPT !.fs = mkdir.fs,
                        !.errors = Append(@, <<path, "mkdirSync">>)]
      ELSE IF skips(force, existsSync(mkdir.fs, path))
        THEN [st EXCEPT !.fs = mkdir.fs, !.skipped = Append(@, path)]
      ELSE IF write.threw
        THEN [st EXCEPT !.fs = write.fs,
                        !.errors = Append(@, <<path, "writeFileSync">>)]
      ELSE [st EXCEPT !.fs = write.fs, !.written = Append(@, path)]

\* for (const file of files) { try { ... } catch (err) { ... } }: the
\* loop ends with the list, or with an exception that leaves the try.
RECURSIVE writeFiles(_, _, _, _)
writeFiles(files, k, force, st) ==
  IF st.threw \/ k > Len(files) THEN st
  ELSE writeFiles(files, k + 1, force, writeOne(st, files[k], force))

\* buildSummary(params, files): filesCreated, generatedFiles and the
\* summary, which renders the same count and list.
buildSummary(params, files) ==
  [filesCreated   |-> Len(files),
   generatedFiles |-> relativePathsOf(files),
   summary        |-> [workspaceName |-> params.workspaceName,
                       count |-> Len(files),
                       list  |-> relativePathsOf(files)]]

(***************************************************************************)
(* validate_workspace                                                      *)
(***************************************************************************)
\* EXPECTED_FILES: path and severity of each item.
EXPECTED_FILES ==
  <<[path |-> pCopilotInstructions, severity |-> "required"],
    [path |-> pSettings, severity |-> "required"],
    [path |-> pCodeGeneration, severity |-> "required"],
    [path |-> pTestGeneration, severity |-> "recommended"],
    [path |-> pCodeReview, severity |-> "recommended"],
    [path |-> pCommitMessage, severity |-> "recommended"],
    [path |-> pPrDescription, severity |-> "optional"],
    [path |-> pWorkLogsReadme, severity |-> "required"],
    [path |-> pTroubleshootingReadme, severity |-> "required"],
    [path |-> pChangelogReadme, severity |-> "required"],
    [path |-> pAdrReadme, severity |-> "recommended"]>>

\* Math.round of a non-negative quotient.
round(numerator, denominator) ==
  (2 * numerator + denominator) \div (2 * denominator)

\* validateWorkspace(workspacePath)
validateWorkspace(fs) ==
  LET items == [k \in 1..Len(EXPECTED_FILES) |->
                  [path     |-> EXPECTED_FILES[k].path,
                   severity |-> EXPECTED_FILES[k].severity,
                   status   |-> IF existsSync(fs, EXPECTED_FILES[k].path)
                                  THEN "present" ELSE "missing"]]
      requiredItems   == SelectSeq(items, LAMBDA i : i.severity = "required")
      presentRequired == SelectSeq(requiredItems, LAMBDA i : i.status = "present")
      allPresent      == SelectSeq(items, LAMBDA i : i.status = "present")
  IN  [isInitialized |-> Len(presentRequired) = Len(requiredItems),
       completeness  |-> round(Len(allPresent) * 100, Len(items)),
       items         |-> items]

(***************************************************************************)
(* recommendAgentSkills: outcome                                           *)
(***************************************************************************)
\* The project types the workspace tools declare (types.ts), which the
\* scoring function does not consult.
DeclaredProjectTypes ==
  {"learning", "web-app", "api", "mobile", "data-science", "devops",
   "creative", "library", "monorepo", "other"}

\* Variant: a project type outside the declared ones is rejected.
outcomeDeclaredTypesOnly(projectType, techStack, userIntent) ==
  IF projectType \in DeclaredProjectTypes THEN "return" ELSE "throw"

\* The body validates nothing, has no throw statement and no early return:
\* every call runs to the return statement.
outcome(projectType, techStack, userIntent) == "return"

(***************************************************************************)
(* Requests                                                                *)
(***************************************************************************)
MaxStackLen == 2

sTypeScript  == <<"T","y","p","e","S","c","r","i","p","t">>
sTypeScript5 == <<"T","y","p","e","S","c","r","i","p","t"," ","5">>

sApiTesting == <<"R","E","S","T"," ","A","p","i"," ","T","e","s","t","i","n","g">>

sDocker      == <<"d","o","c","k","e","r">>
sDockerMixed == <<"D","o","c","K","e","r">>
sReviewMixed == <<"R","e","v","i","e","w">>
sNoMatch     == <<"z","z","z">>

ProjectTypeInputs == {"api", "API", "web-app", "unknown-type", "*"}
StackItemInputs   == {sTypeScript, sTypeScript5, <<>>}
TechStackInputs   ==
  UNION {[1..n -> StackItemInputs] : n \in 0..MaxStackLen}
UserIntentInputs  == {<<>>, sApiTesting}
CapInputs         == {<<1, 0>>, <<5, 5>>, <<100, 100>>}
QueryInputs       == {<<>>, sDocker, sDockerMixed, sReviewMixed, sNoMatch}

\* A call of one of the exported functions with its arguments.  The
\* arguments a function does not take are left at a fixed value, and so is
\* an optional argument that the caller omits (named in omitted).
noCall ==
  [op |-> "", projectType |-> "", techStack |-> <<>>, userIntent |-> <<>>,
   maxAgents |-> 0, maxSkills |-> 0, query |-> <<>>, omitted |-> {},
   purpose |-> <<>>, skillIds |-> <<>>, agentIds |-> <<>>]

recommendCalls(types, stacks, intents, caps) ==
  {[noCall EXCEPT !.op = "recommend", !.projectType = t, !.techStack = s,
                  !.userIntent = u, !.maxAgents = c[1], !.maxSkills = c[2]] :
     <<t, s, u, c>> \in types \X stacks \X intents \X caps}

\* Calls of recommendAgentSkills that leave options out: both caps, one
\* cap, everything.
recommendCallsOmitting ==
  {[noCall EXCEPT !.op = "recommend", !.projectType = "api",
                  !.techStack = <<sTypeScript>>, !.omitted = {"maxAgents", "maxSkills"}],
   [noCall EXCEPT !.op = "recommend", !.projectType = "api",
                  !.techStack = <<sTypeScript>>, !.maxAgents = 100,
                  !.omitted = {"maxSkills"}],
   [noCall EXCEPT !.op = "recommend",
                  !.omitted = {"projectType", "techStack", "userIntent",
                               "maxAgents", "maxSkills"}]}

\* Calls of generateAgentSkills(params, options): without options, without
\* project type and tech stack too, with caps of 0, with other caps, with
\* ids to install, with an empty intent.
generateCall ==
  [noCall EXCEPT !.op = "generate", !.projectType = "api",
                 !.techStack = <<sTypeScript>>, !.purpose = sApiTesting,
                 !.omitted = {"userIntent", "maxAgents", "maxSkills",
                              "skillIds", "agentIds"}]

generateCalls ==
  {generateCall,
   [generateCall EXCEPT !.projectType = "", !.techStack = <<>>,
                        !.omitted = @ \cup {"projectType", "techStack"}],
   [generateCall EXCEPT !.omitted = @ \ {"maxAgents", "maxSkills"}],
   [generateCall EXCEPT !.maxAgents = 3, !.maxSkills = 100,
                        !.omitted = @ \ {"maxAgents", "maxSkills"}],
   [generateCall EXCEPT !.skillIds = <<"prd">>, !.agentIds = <<"janitor">>,
                        !.omitted = @ \ {"skillIds", "agentIds"}],
   [generateCall EXCEPT !.omitted = @ \ {"userIntent"}]}

searchCalls(queries) ==
  {[noCall EXCEPT !.op = "search", !.query = q] : q \in queries}

listCalls == {[noCall EXCEPT !.op = "listCategories"]}

Calls ==
  recommendCalls(ProjectTypeInputs, TechStackInputs, UserIntentInputs, CapInputs)
    \cup recommendCallsOmitting \cup searchCalls(QueryInputs) \cup listCalls
    \cup generateCalls

\* Calls made one after another in one process: at most MaxCalls calls are
\* remembered as made before the current one.
MaxCalls == 2

\* Entry-at-a-time scoring: the first MaxFree entries of each catalog are
\* scored one by one in any order, the others in one step.
MaxFree == 3

ParallelCalls ==
  recommendCalls({"api"}, {<<sTypeScript>>}, UserIntentInputs, {<<5, 5>>})

SessionCalls ==
  recommendCalls({"api", "unknown-type"}, {<<>>, <<sTypeScript>>},
                 UserIntentInputs, {<<5, 5>>, <<100, 100>>})
    \cup searchCalls(QueryInputs) \cup listCalls

(***************************************************************************)
(* State                                                                   *)
(***************************************************************************)
VARIABLES
  agentRegistry,   \* the module-level array AGENT_REGISTRY
  skillRegistry,   \* the module-level array SKILL_REGISTRY
  pc,              \* "call": call made, "scoring": entries being scored,
                   \* "return": result produced, "throw": exception raised
  op,              \* the function called
  projectType,     \* options.projectType
  techStack,       \* options.techStack
  userIntent,      \* options.userIntent
  maxAgents,       \* options.maxAgents
  maxSkills,       \* options.maxSkills
  query,           \* the argument of searchAgentSkills
  agentScores,     \* score computed for each agent entry, by position
  skillScores,     \* score computed for each skill entry, by position
  agents,          \* result.agents, as positions in the agent registry
  skills,          \* result.skills, as positions in the skill registry
  summary,         \* result.summary
  agentCategories, \* result.agentCategories of listCategories
  skillCategories, \* result.skillCategories of listCategories
  omitted,         \* the names of the optional arguments the caller left out
  purpose,         \* params.purpose of generateAgentSkills
  skillIds,        \* options.skillIds of generateAgentSkills
  agentIds,        \* options.agentIds of generateAgentSkills
  files,           \* the GeneratedFile list that generateAgentSkills returns
  made,            \* the functions called before the current call, in order
  scored,          \* entry-at-a-time scoring: the entries scored so far
  workspaceName,   \* params.workspaceName of the workspace tools
  force,           \* params.force of initialize_workspace
  today,           \* the date of the call
  disk,            \* the files and directories under workspacePath
  written,         \* initialize_workspace: the paths written
  skipped,         \* initialize_workspace: the paths skipped
  errors,          \* initialize_workspace: the paths that failed
  reply            \* what the tool handler returns

vars == <<agentRegistry, skillRegistry, pc, op, projectType, techStack,
          userIntent, maxAgents, maxSkills, query, agentScores, skillScores,
          agents, skills, summary, agentCategories, skillCategories, made,
          scored, omitted, purpose, skillIds, agentIds, files,
          workspaceName, force, today, disk, written, skipped, errors, reply>>

options == <<projectType, techStack, userIntent, maxAgents, maxSkills>>

registries == <<agentRegistry, skillRegistry>>

workspace == <<workspaceName, force, today, disk, written, skipped, errors,
               reply>>

call == <<op, projectType, techStack, userIntent, maxAgents, maxSkills, query,
          omitted, purpose, skillIds, agentIds>>

\* The arguments that the function does not rebind on entry.
passed == <<op, query, omitted, purpose, skillIds, agentIds>>

result == <<agentScores, skillScores, agents, skills, summary,
            agentCategories, skillCategories>>

\* No entry scored yet, none out of declaration order.
noneScored == [agents |-> {}, skills |-> {}, reordered |-> FALSE]

\* The state in which the call c has been made and nothing computed yet.
called(c) ==
  /\ pc = "call"
  /\ op = c.op
  /\ projectType = c.projectType
  /\ techStack = c.techStack
  /\ userIntent = c.userIntent
  /\ maxAgents = c.maxAgents
  /\ maxSkills = c.maxSkills
  /\ query = c.query
  /\ omitted = c.omitted
  /\ purpose = c.purpose
  /\ skillIds = c.skillIds
  /\ agentIds = c.agentIds
  /\ files = <<>>
  /\ agentScores = <<>>
  /\ skillScores = <<>>
  /\ agents = <<>>
  /\ skills = <<>>
  /\ summary = <<>>
  /\ agentCategories = <<>>
  /\ skillCategories = <<>>
  /\ scored = noneScored

existingFile == <<"existing">>

\* Workspaces before the first call: an empty one; one with some of the
\* generated files in place; one with a file where the skills directory
\* goes and a directory where a README goes; one with only a directory
\* where a README goes.
emptyWorkspace == [files |-> <<>>, dirs |-> {}]

partWorkspace ==
  [files |-> (pCopilotInstructions :> existingFile)
             @@ (pSettings :> existingFile)
             @@ (pChangelogReadme :> existingFile),
   dirs  |-> ancestors(pCopilotInstructions) \cup ancestors(pSettings)
               \cup ancestors(pChangelogReadme)]

Workspaces ==
  {emptyWorkspace,
   partWorkspace,
   [files |-> (dirname(pSkillsDir) :> existingFile),
    dirs  |-> ancestors(dirname(pSkillsDir)) \cup ancestors(pAdrReadme)
                \cup {pAdrReadme}],
   [files |-> <<>>, dirs |-> ancestors(pAdrReadme) \cup {pAdrReadme}]}

noReply == [isError |-> FALSE]

\* The state of the variables of the workspace tools while none is called.
noWorkspace ==
  /\ workspaceName = <<>>
  /\ force = FALSE
  /\ today = <<>>
  /\ disk = emptyWorkspace
  /\ written = <<>>
  /\ skipped = <<>>
  /\ errors = <<>>
  /\ reply = noReply

\* Variant: the agent registry is loaded with one entry declared twice.
loadedWithRepeatedEntry ==
  /\ agentRegistry = AGENT_REGISTRY \o <<AGENT_REGISTRY[1]>>
  /\ skillRegistry = SKILL_REGISTRY

\* Module load: the two registries hold their literals.
loaded ==
  /\ agentRegistry = AGENT_REGISTRY
  /\ skillRegistry = SKILL_REGISTRY

Init ==
  /\ loaded
  /\ noWorkspace
  /\ made = <<>>
  /\ \E c \in Calls : called(c)

\* const { projectType = "other", techStack = [], userIntent = "",
\*         maxAgents = 10, maxSkills = 15 } = options
destructured ==
  /\ projectType' = optionOrDefault("projectType", projectType, "other", omitted)
  /\ techStack' = optionOrDefault("techStack", techStack, <<>>, omitted)
  /\ userIntent' = optionOrDefault("userIntent", userIntent, <<>>, omitted)
  /\ maxAgents' = capOrDefault("maxAgents", maxAgents, 10, omitted)
  /\ maxSkills' = capOrDefault("maxSkills", maxSkills, 15, omitted)

recommendAgentSkills ==
  /\ pc = "call"
  /\ op = "recommend"
  /\ destructured
  /\ LET intentLower == intentLowerOf(userIntent')
         techLower   == techLowerOf(techStack')
     IN  /\ agentScores' = scoreAll(agentRegistry, projectType', techLower, intentLower)
         /\ skillScores' = scoreAll(skillRegistry, projectType', techLower, intentLower)
  /\ agents' = rank(agentScores', maxAgents')
  /\ skills' = rank(skillScores', maxSkills')
  /\ summary' = recommendSummary(projectType', techStack',
                                 agentRegistry, agents', skillRegistry, skills')
  /\ agentRegistry' = registryAfterRanking(agentRegistry, agentScores')
  /\ skillRegistry' = registryAfterRanking(skillRegistry, skillScores')
  /\ pc' = outcome(projectType', techStack', userIntent')
  /\ UNCHANGED <<passed, agentCategories, skillCategories, made, files,
                 workspace, scored>>

searchAgentSkills ==
  /\ pc = "call"
  /\ op = "search"
  /\ LET q == toLowerCase(query)
     IN  /\ agents' = searchRegistry(agentRegistry, q)
         /\ skills' = searchRegistry(skillRegistry, q)
  /\ summary' = searchSummary(query, agentRegistry, agents', skillRegistry, skills')
  /\ pc' = "return"
  /\ UNCHANGED <<registries, call, agentScores, skillScores,
                 agentCategories, skillCategories, made, files, workspace,
                 scored>>

listCategories ==
  /\ pc = "call"
  /\ op = "listCategories"
  /\ agentCategories' = categoriesSorted(agentRegistry)
  /\ skillCategories' = categoriesSorted(skillRegistry)
  /\ pc' = "return"
  /\ UNCHANGED <<registries, call, agentScores, skillScores, agents, skills,
                 summary, made, files, workspace, scored>>

\* generateAgentSkills(params, options): binds the arguments of its call
\* of recommendAgentSkills, which scores and ranks as above, and builds the
\* files of what was recommended.
generateAgentSkills ==
  /\ pc = "call"
  /\ op = "generate"
  /\ projectType' = optionOrDefault("projectType", projectType, "other", omitted)
  /\ techStack' = optionOrDefault("techStack", techStack, <<>>, omitted)
  /\ userIntent' = optionOrDefault("userIntent", userIntent, purpose, omitted)
  /\ maxAgents' = capOrDefault("maxAgents", capOrDefault("maxAgents", maxAgents, 8, omitted),
                               10, {})
  /\ maxSkills' = capOrDefault("maxSkills", capOrDefault("maxSkills", maxSkills, 12, omitted),
                               15, {})
  /\ LET intentLower == intentLowerOf(userIntent')
         techLower   == techLowerOf(techStack')
     IN  /\ agentScores' = scoreAll(agentRegistry, projectType', techLower, intentLower)
         /\ skillScores' = scoreAll(skillRegistry, projectType', techLower, intentLower)
  /\ agents' = rank(agentScores', maxAgents')
  /\ skills' = rank(skillScores', maxSkills')
  /\ agentRegistry' = registryAfterRanking(agentRegistry, agentScores')
  /\ skillRegistry' = registryAfterRanking(skillRegistry, skillScores')
  /\ files' = agentSkillFiles(agentRegistry, agents', skillRegistry, skills')
  /\ pc' = "return"
  /\ UNCHANGED <<passed, summary, agentCategories, skillCategories, made, scored,
                 workspace>>

Next ==
  \/ recommendAgentSkills
  \/ searchAgentSkills
  \/ listCategories
  \/ generateAgentSkills

Spec == Init /\ [][Next]_vars

(***************************************************************************)
(* recommendAgentSkills with the entries scored in any order               *)
(***************************************************************************)
\* The entries that are scored one by one, and the others.
freeEntries(registry) == {k \in 1..Len(registry) : k <= MaxFree}
otherEntries(registry) == {k \in 1..Len(registry) : k > MaxFree}

\* Variant: a score is appended in the order of completion.
slotByCompletion(k, done) == Cardinality(done) + 1

\* REGISTRY.map(callback): the callback's value for element k is element k
\* of the new array, whatever has been computed before.
slotOf(k, done) == k

\* The map callback applied to entry k alone, its score put in its slot.
scoreOne(registry, scores, k, done) ==
  [scores EXCEPT ![slotOf(k, done)] =
     score(registry[k], projectType, techLowerOf(techStack), intentLowerOf(userIntent))]

\* The map callback applied to the entries that are not scored one by one.
scoreOthers(registry, scores) ==
  LET techLower   == techLowerOf(techStack)
      intentLower == intentLowerOf(userIntent)
  IN  SubSeq([k \in 1..Len(registry) |->
                IF k \in otherEntries(registry)
                THEN score(registry[k], projectType, techLower, intentLower)
                ELSE scores[k]], 1, Len(registry))

\* The new array of the map, one slot per entry, nothing computed yet.
emptySlots(registry) == SubSeq([k \in 1..Len(registry) |-> 0], 1, Len(registry))

\* Entry k is scored while an entry declared before it is not yet scored.
outOfOrder(k, done) == \E j \in 1..(k - 1) : j \notin done

ParallelInit ==
  /\ loaded
  /\ noWorkspace
  /\ made = <<>>
  /\ \E c \in ParallelCalls : called(c)

startScoring ==
  /\ pc = "call"
  /\ op = "recommend"
  /\ agentScores' = emptySlots(agentRegistry)
  /\ skillScores' = emptySlots(skillRegistry)
  /\ pc' = "scoring"
  /\ destructured
  /\ UNCHANGED <<registries, passed, agents, skills, summary,
                 agentCategories, skillCategories, made, files, workspace,
                 scored>>

scoreAgent(k) ==
  /\ pc = "scoring"
  /\ k \in freeEntries(agentRegistry) \ scored.agents
  /\ agentScores' = scoreOne(agentRegistry, agentScores, k,
                             scored.agents \cap freeEntries(agentRegistry))
  /\ scored' = [scored EXCEPT !.agents = @ \cup {k},
                              !.reordered = @ \/ outOfOrder(k, scored.agents)]
  /\ UNCHANGED <<registries, pc, call, skillScores, agents, skills, summary,
                 agentCategories, skillCategories, made, files, workspace>>

scoreOtherAgents ==
  /\ pc = "scoring"
  /\ otherEntries(agentRegistry) \cap scored.agents = {}
  /\ agentScores' = scoreOthers(agentRegistry, agentScores)
  /\ scored' = [scored EXCEPT !.agents = @ \cup otherEntries(agentRegistry),
                              !.reordered = @ \/ outOfOrder(MaxFree + 1, scored.agents)]
  /\ UNCHANGED <<registries, pc, call, skillScores, agents, skills, summary,
                 agentCategories, skillCategories, made, files, workspace>>

scoreSkill(k) ==
  /\ pc = "scoring"
  /\ k \in freeEntries(skillRegistry) \ scored.skills
  /\ skillScores' = scoreOne(skillRegistry, skillScores, k,
                             scored.skills \cap freeEntries(skillRegistry))
  /\ scored' = [scored EXCEPT !.skills = @ \cup {k},
                              !.reordered = @ \/ outOfOrder(k, scored.skills)]
  /\ UNCHANGED <<registries, pc, call, agentScores, agents, skills, summary,
                 agentCategories, skillCategories, made, files, workspace>>

scoreOtherSkills ==
  /\ pc = "scoring"
  /\ otherEntries(skillRegistry) \cap scored.skills = {}
  /\ skillScores' = scoreOthers(skillRegistry, skillScores)
  /\ scored' = [scored EXCEPT !.skills = @ \cup otherEntries(skillRegistry),
                              !.reordered = @ \/ outOfOrder(MaxFree + 1, scored.skills)]
  /\ UNCHANGED <<registries, pc, call, agentScores, agents, skills, summary,
                 agentCategories, skillCategories, made, files, workspace>>

\* All entries are scored: the rest of the chain and the summary.
rankScored ==
  /\ pc = "scoring"
  /\ scored.agents = 1..Len(agentRegistry)
  /\ scored.skills = 1..Len(skillRegistry)
  /\ agents' = rank(agentScores, maxAgents)
  /\ skills' = rank(skillScores, maxSkills)
  /\ summary' = recommendSummary(projectType, techStack,
                                 agentRegistry, agents', skillRegistry, skills')
  /\ pc' = "return"
  /\ UNCHANGED <<registries, call, agentScores, skillScores,
                 agentCategories, skillCategories, made, files, workspace,
                 scored>>

ParallelNext ==
  \/ startScoring
  \/ \E k \in freeEntries(agentRegistry) : scoreAgent(k)
  \/ scoreOtherAgents
  \/ \E k \in freeEntries(skillRegistry) : scoreSkill(k)
  \/ scoreOtherSkills
  \/ rankScored

ParallelSpec == ParallelInit /\ [][ParallelNext]_vars

(***************************************************************************)
(* A process that makes one call after another                             *)
(***************************************************************************)
SessionInit ==
  /\ loaded
  /\ noWorkspace
  /\ made = <<>>
  /\ \E c \in SessionCalls : called(c)

\* The caller has the result and makes its next call; the registries are
\* module-level and stay as the previous call left them.
nextCall ==
  /\ pc = "return"
  /\ Len(made) < MaxCalls
  /\ made' = Append(made, op)
  /\ \E c \in SessionCalls :
        /\ pc' = "call"
        /\ op' = c.op
        /\ projectType' = c.projectType
        /\ techStack' = c.techStack
        /\ userIntent' = c.userIntent
        /\ maxAgents' = c.maxAgents
        /\ maxSkills' = c.maxSkills
        /\ query' = c.query
        /\ omitted' = c.omitted
        /\ purpose' = c.purpose
        /\ skillIds' = c.skillIds
        /\ agentIds' = c.agentIds
  /\ agentScores' = <<>>
  /\ skillScores' = <<>>
  /\ agents' = <<>>
  /\ skills' = <<>>
  /\ summary' = <<>>
  /\ agentCategories' = <<>>
  /\ skillCategories' = <<>>
  /\ files' = <<>>
  /\ UNCHANGED <<registries, scored, workspace>>

SessionNext ==
  \/ recommendAgentSkills
  \/ searchAgentSkills
  \/ listCategories
  \/ nextCall

SessionSpec == SessionInit /\ [][SessionNext]_vars

(***************************************************************************)
(* The workspace tools: initialize_workspace, preview_workspace_init,      *)
(* validate_workspace                                                      *)
(***************************************************************************)
sReadme == <<"R", "E", "A", "D", "M", "E">>

sOps == <<".", ".", "/", "O", "p", "s", " ", " ", "2", "!">>

\* The dates on which the tools are called, in order.
Dates ==
  <<<<"2", "0", "2", "6", "-", "1", "1", "-", "0", "4">>,
    <<"2", "0", "2", "6", "-", "1", "1", "-", "0", "5">>>>

\* The tool arguments that collectFiles reads: workspaceName, purpose,
\* projectType and techStack (both optional).
ToolParams ==
  {[workspaceName |-> sOps, purpose |-> sApiTesting, projectType |-> "api",
    techStack |-> <<sTypeScript>>, omitted |-> {}],
   [workspaceName |-> sReadme, purpose |-> sNoMatch, projectType |-> "",
    techStack |-> <<>>, omitted |-> {"projectType", "techStack"}]}

\* The tool called and the force argument (false where it is left out).
ToolCalls ==
  {[op |-> "initialize", force |-> FALSE, omitted |-> {"force"}],
   [op |-> "initialize", force |-> FALSE, omitted |-> {}],
   [op |-> "initialize", force |-> TRUE, omitted |-> {}],
   [op |-> "preview", force |-> FALSE, omitted |-> {"force"}],
   [op |-> "validate", force |-> FALSE, omitted |-> {"force"}]}

toolCalled(p, t) ==
  /\ called([noCall EXCEPT !.op = t.op, !.projectType = p.projectType,
                           !.techStack = p.techStack, !.purpose = p.purpose,
                           !.omitted = p.omitted \cup t.omitted])
  /\ workspaceName = p.workspaceName
  /\ force = t.force
  /\ written = <<>>
  /\ skipped = <<>>
  /\ errors = <<>>
  /\ reply = noReply

WorkspaceInit ==
  /\ loaded
  /\ made = <<>>
  /\ \E p \in ToolParams, t \in ToolCalls : toolCalled(p, t)
  /\ today = Dates[1]
  /\ disk \in Workspaces

\* The WorkspaceInitParams object that a handler builds from the tool
\* arguments; includeAgentSkills and agentSkillsIntent are not set.
paramsFrom(name, why, type, stack, left) ==
  [workspaceName |-> name, purpose |-> why, projectType |-> type,
   techStack |-> stack, includeAgentSkills |-> TRUE,
   agentSkillsIntent |-> <<>>,
   omitted |-> (left \cap {"projectType", "techStack"})
                 \cup {"includeAgentSkills", "agentSkillsIntent"}]

\* initParams of the initialize_workspace handler.
initializeParams ==
  paramsFrom(workspaceName, purpose, projectType, techStack, omitted)

\* Variant: the preview is made for the default project type.
previewParamsOfDefaultType ==
  paramsFrom(workspaceName, purpose, projectType, techStack,
             omitted \cup {"projectType"})

\* initParams of the preview_workspace_init handler.
previewParams ==
  paramsFrom(workspaceName, purpose, projectType, techStack, omitted)

\* The initialize_workspace handler: collects the files, writes them in
\* order, builds the summary and replies; an exception that leaves the
\* loop is caught by the outer catch, which replies with isError.
initialize_workspace ==
  /\ pc = "call"
  /\ op = "initialize"
  /\ LET initParams == initializeParams
         generated  == collectFiles(initParams, today)
         done       == writeFiles(generated, 1,
                                  optionOrDefault("force", force, FALSE, omitted),
                                  noneWritten(disk))
         built      == buildSummary(initParams, generated)
     IN  /\ files' = generated
         /\ disk' = done.fs
         /\ written' = done.written
         /\ skipped' = done.skipped
         /\ errors' = done.errors
         /\ reply' = IF done.threw
                       THEN [isError |-> TRUE]
                       ELSE [isError |-> FALSE,
                             filesCreated |-> built.filesCreated,
                             generatedFiles |-> built.generatedFiles,
                             summary |-> built.summary,
                             skipped |-> done.skipped,
                             errors |-> done.errors]
  /\ pc' = "return"
  /\ UNCHANGED <<registries, call, result, made, scored, workspaceName, force,
                 today>>

\* The preview_workspace_init handler: collects the files and replies with
\* their number and, for each, its path and the head of its content.
preview_workspace_init ==
  /\ pc = "call"
  /\ op = "preview"
  /\ LET generated == collectFiles(previewParams, today)
     IN  /\ files' = generated
         /\ reply' = [isError |-> FALSE,
                      count |-> Len(generated),
                      preview |-> relativePathsOf(generated)]
  /\ pc' = "return"
  /\ UNCHANGED <<registries, call, result, made, scored, workspaceName, force,
                 today, disk, written, skipped, errors>>

\* The validate_workspace handler.
validate_workspace ==
  /\ pc = "call"
  /\ op = "validate"
  /\ reply' = [isError |-> FALSE, result |-> validateWorkspace(disk)]
  /\ pc' = "return"
  /\ UNCHANGED <<registries, call, result, made, scored, files, workspaceName,
                 force, today, disk, written, skipped, errors>>

\* The client has the reply and calls a tool on the same workspace, with
\* the same workspace arguments, on the same or a later date; a session
\* has any number of calls; what the last initialize_workspace wrote,
\* skipped and failed to write stays on record.
nextToolCall ==
  /\ pc = "return"
  /\ pc' = "call"
  /\ \E t \in ToolCalls :
        /\ op' = t.op
        /\ force' = t.force
        /\ omitted' = (omitted \ {"force"}) \cup t.omitted
  /\ \E j, k \in 1..Len(Dates) :
        /\ today = Dates[j]
        /\ j <= k
        /\ today' = Dates[k]
  /\ files' = <<>>
  /\ reply' = noReply
  /\ UNCHANGED <<registries, options, query, purpose, skillIds, agentIds,
                 result, made, scored, workspaceName, disk, written,
                 skipped, errors>>

WorkspaceNext ==
  \/ initialize_workspace
  \/ preview_workspace_init
  \/ validate_workspace
  \/ nextToolCall

WorkspaceSpec == WorkspaceInit /\ [][WorkspaceNext]_vars

TypeOK ==
  /\ pc \in {"call", "scoring", "return", "throw"}
  /\ op \in {"recommend", "search", "listCategories", "generate"}
  /\ (op = "recommend" /\ omitted = {}) =>
       /\ projectType \in ProjectTypeInputs
       /\ techStack \in TechStackInputs
       /\ userIntent \in UserIntentInputs
       /\ <<maxAgents, maxSkills>> \in CapInputs
  /\ maxAgents \in Nat
  /\ maxSkills \in Nat
  /\ op = "search" => query \in QueryInputs
  /\ Len(agents) <= Len(AGENT_REGISTRY)
  /\ Len(skills) <= Len(SKILL_REGISTRY)
  /\ Len(made) <= MaxCalls

(***************************************************************************)
(* Vocabulary of the properties                                            *)
(***************************************************************************)
Returned == pc = "return" /\ op = "recommend"

Range(seq) == {seq[k] : k \in 1..Len(seq)}

Min(a, b) == IF a < b THEN a ELSE b

AgentIds == 1..Len(AGENT_REGISTRY)
SkillIds == 1..Len(SKILL_REGISTRY)

\* Position of the entry with the given id.
AgentNamed(id) == CHOOSE k \in AgentIds : AGENT_REGISTRY[k].id = id
SkillNamed(id) == CHOOSE k \in SkillIds : SKILL_REGISTRY[k].id = id

\* A returned list is ordered by non-increasing score and everything left
\* out scores no more than anything returned.
RankedByScore(list, scores) ==
  /\ \A i, j \in 1..Len(list) : i < j => scores[list[i]] >= scores[list[j]]
  /\ \A k \in 1..Len(scores) :
        k \notin Range(list) => \A i \in 1..Len(list) : scores[k] <= scores[list[i]]

\* Entries of equal score keep their declaration order in a returned list.
TiesInDeclarationOrder(list, scores) ==
  \A i, j \in 1..Len(list) :
     (i < j /\ scores[list[i]] = scores[list[j]]) => list[i] < list[j]

(***************************************************************************)
(* Properties                                                              *)
(***************************************************************************)

\* C1: the score computed for every entry of either registry is at least
\* its priority bonus (4 - priority) * 2, hence at least 2.
PriorityFloor ==
  Returned =>
    /\ \A k \in AgentIds :
          /\ agentScores[k] >= (4 - AGENT_REGISTRY[k].priority) * 2
          /\ agentScores[k] >= 2
    /\ \A k \in SkillIds :
          /\ skillScores[k] >= (4 - SKILL_REGISTRY[k].priority) * 2
          /\ skillScores[k] >= 2

\* Some entry sits exactly on the floor of 2 while another one is above its
\* own floor.
PriorityFloorWitness ==
  /\ Returned
  /\ \E k \in AgentIds : agentScores[k] = 2
  /\ \E k \in SkillIds : skillScores[k] = 2
  /\ \E k \in AgentIds : agentScores[k] > (4 - AGENT_REGISTRY[k].priority) * 2

\* C2: the score > 0 filter removes nothing, so each returned list has
\* length min(registry size, cap); caps 1 and 0 give 1 agent and 0 skills.
FilterKeepsAll ==
  Returned =>
    /\ Len(agents) = Min(Len(AGENT_REGISTRY), maxAgents)
    /\ Len(skills) = Min(Len(SKILL_REGISTRY), maxSkills)
    /\ maxAgents >= Len(AGENT_REGISTRY) => Range(agents) = AgentIds
    /\ maxSkills >= Len(SKILL_REGISTRY) => Range(skills) = SkillIds
    /\ (maxAgents = 1 /\ maxSkills = 0) => (Len(agents) = 1 /\ Len(skills) = 0)

\* A web-app request with a tech stack and an intent, capped at 1 agent
\* and 0 skills, has returned one agent and no skill.
FilterKeepsAllWitness ==
  /\ Returned
  /\ projectType = "web-app"
  /\ techStack = <<sTypeScript, sTypeScript5>>
  /\ userIntent = sApiTesting
  /\ maxAgents = 1 /\ maxSkills = 0
  /\ Len(agents) = 1 /\ Len(skills) = 0

\* C3: each returned list is in non-increasing score order, and every entry
\* cut off by the truncation scores no more than the lowest returned one.
SortedDescending ==
  Returned =>
    /\ RankedByScore(agents, agentScores)
    /\ RankedByScore(skills, skillScores)

\* A truncated list that holds entries of different scores.
SortedDescendingWitness ==
  /\ Returned
  /\ Len(agents) < Len(AGENT_REGISTRY)
  /\ \E i, j \in 1..Len(agents) : agentScores[agents[i]] > agentScores[agents[j]]
  /\ \E k \in AgentIds : k \notin Range(agents)
                            /\ agentScores[k] < agentScores[agents[Len(agents)]]

\* C4: entries of one registry with equal scores that are both returned
\* appear in their declaration order.
StableRanking ==
  Returned =>
    /\ TiesInDeclarationOrder(agents, agentScores)
    /\ TiesInDeclarationOrder(skills, skillScores)

\* Two returned agents tie, and an agent declared before both of them is
\* returned after them (so the output is not simply declaration order).
StableRankingWitness ==
  /\ Returned
  /\ \E i, j \in 1..Len(agents) :
        /\ i < j
        /\ agentScores[agents[i]] = agentScores[agents[j]]
        /\ \E m \in 1..Len(agents) : j < m /\ agents[m] < agents[i]

(***************************************************************************)
(* Vocabulary of the scoring properties                                    *)
(***************************************************************************)
\* The upper-case form of each lower-case letter.
UpperCaseOf ==
  [c \in {LowerCaseOf[u] : u \in DOMAIN LowerCaseOf} |->
     CHOOSE u \in DOMAIN LowerCaseOf : LowerCaseOf[u] = c]

UpperCased(s) ==
  SubSeq([k \in 1..Len(s) |->
            IF s[k] \in DOMAIN UpperCaseOf THEN UpperCaseOf[s[k]] ELSE s[k]], 1, Len(s))

LowerCased(s) ==
  SubSeq([k \in 1..Len(s) |->
            IF s[k] \in DOMAIN LowerCaseOf THEN LowerCaseOf[s[k]] ELSE s[k]], 1, Len(s))

\* needle is a contiguous part of haystack.
IsSubstring(needle, haystack) ==
  \E i \in 1..(Len(haystack) - Len(needle) + 1) :
     SubSeq(haystack, i, i + Len(needle) - 1) = needle

Reversed(seq) == [k \in 1..Len(seq) |-> seq[Len(seq) + 1 - k]]

\* The scores and the lists that a request with the given tech stack and
\* intent (and the project type and caps of the current one) produces.
ScoresFor(registry, stack, intent) ==
  scoreAll(registry, projectType, techLowerOf(stack), intentLowerOf(intent))

SameOutcomeFor(stack, intent) ==
  LET otherAgentScores == ScoresFor(AGENT_REGISTRY, stack, intent)
      otherSkillScores == ScoresFor(SKILL_REGISTRY, stack, intent)
  IN  /\ otherAgentScores = agentScores
      /\ otherSkillScores = skillScores
      /\ rank(otherAgentScores, maxAgents) = agents
      /\ rank(otherSkillScores, maxSkills) = skills

\* The parts of a computed score, each obtained by taking the other three
\* signals away from it.
ProjectTypePart(entry, computed) ==
  computed - techStackScore(entry, techLowerOf(techStack), 1)
           - intentScore(entry, intentLowerOf(userIntent), 1)
           - priorityBonus(entry)

TechPart(entry, computed) ==
  computed - projectTypeScore(entry, projectType)
           - intentScore(entry, intentLowerOf(userIntent), 1)
           - priorityBonus(entry)

IntentPart(entry, computed) ==
  computed - projectTypeScore(entry, projectType)
           - techStackScore(entry, techLowerOf(techStack), 1)
           - priorityBonus(entry)

\* Holds when P(entry, computed score) holds of every entry of both
\* registries.
ForEveryEntry(P(_, _)) ==
  /\ \A k \in AgentIds : P(AGENT_REGISTRY[k], agentScores[k])
  /\ \A k \in SkillIds : P(SKILL_REGISTRY[k], skillScores[k])

IsWildcard(entry) == "*" \in Range(entry.relevantProjectTypes)

\* C5: the project-type signal is +10 exactly for the entries that carry
\* the wildcard or the request's project type verbatim, and 0 otherwise; a
\* wildcard entry therefore gets it for every project type.
ProjectTypeSignal ==
  Returned =>
    LET P(entry, computed) ==
          /\ ProjectTypePart(entry, computed) =
               IF IsWildcard(entry) \/ projectType \in Range(entry.relevantProjectTypes)
               THEN 10 ELSE 0
          /\ IsWildcard(entry) => ProjectTypePart(entry, computed) = 10
    IN  ForEveryEntry(P)

\* The project type "API" differs from "api" in case only: api-architect
\* gets nothing for it while the wildcard agent plan gets +10.
ProjectTypeSignalWitness ==
  /\ Returned
  /\ projectType = "API"
  /\ ProjectTypePart(AGENT_REGISTRY[AgentNamed("api-architect")],
                     agentScores[AgentNamed("api-architect")]) = 0
  /\ ProjectTypePart(AGENT_REGISTRY[AgentNamed("plan")],
                     agentScores[AgentNamed("plan")]) = 10

\* C6: the tech-stack signal is 5 times the number of tech keywords that
\* match at least one stack item, so repeating stack items or reordering
\* the stack changes no score.
TechSignalPerKeyword ==
  Returned =>
    LET techLower == techLowerOf(techStack)
        P(entry, computed) ==
          TechPart(entry, computed) =
            5 * Cardinality({q \in 1..Len(entry.techKeywords) :
                               \E t \in 1..Len(techLower) :
                                  techMatch(techLower[t], entry.techKeywords[q])})
    IN  /\ ForEveryEntry(P)
        /\ ScoresFor(AGENT_REGISTRY, Reversed(techStack), userIntent) = agentScores
        /\ ScoresFor(SKILL_REGISTRY, Reversed(techStack), userIntent) = skillScores
        /\ ScoresFor(AGENT_REGISTRY, techStack \o techStack, userIntent) = agentScores
        /\ ScoresFor(SKILL_REGISTRY, techStack \o techStack, userIntent) = skillScores

\* The keyword "TypeScript" of typescript-mcp-expert matches both items of
\* the stack and counts once.
TechSignalPerKeywordWitness ==
  /\ Returned
  /\ techStack = <<sTypeScript, sTypeScript5>>
  /\ techMatch(toLowerCase(sTypeScript), sTypeScript)
  /\ techMatch(toLowerCase(sTypeScript5), sTypeScript)
  /\ TechPart(AGENT_REGISTRY[AgentNamed("typescript-mcp-expert")],
              agentScores[AgentNamed("typescript-mcp-expert")]) = 5

\* C7: a tech keyword matches a stack item exactly when, both lower-cased,
\* one is a substring of the other; so the letter case of the stack items
\* changes neither a score nor a returned list, and an item that extends a
\* keyword still matches it.
TechMatchCaseInsensitive ==
  Returned =>
    LET lowered == SubSeq([t \in 1..Len(techStack) |-> LowerCased(techStack[t])],
                          1, Len(techStack))
        Matches(item, keyword) ==
          \/ IsSubstring(LowerCased(keyword), item)
          \/ IsSubstring(item, LowerCased(keyword))
        P(entry, computed) ==
          TechPart(entry, computed) =
            5 * Cardinality({q \in 1..Len(entry.techKeywords) :
                               \E t \in 1..Len(lowered) :
                                  Matches(lowered[t], entry.techKeywords[q])})
    IN  /\ ForEveryEntry(P)
        /\ SameOutcomeFor([t \in 1..Len(techStack) |-> UpperCased(techStack[t])], userIntent)
        /\ SameOutcomeFor([t \in 1..Len(techStack) |-> LowerCased(techStack[t])], userIntent)

\* The stack ["TypeScript 5"] gives typescript-mcp-expert the +5 of its
\* keyword "TypeScript", although neither string equals the other.
TechMatchCaseInsensitiveWitness ==
  /\ Returned
  /\ techStack = <<sTypeScript5>>
  /\ UpperCased(sTypeScript5) # sTypeScript5
  /\ LowerCased(sTypeScript5) # sTypeScript5
  /\ TechPart(AGENT_REGISTRY[AgentNamed("typescript-mcp-expert")],
              agentScores[AgentNamed("typescript-mcp-expert")]) = 5

\* C8: the intent signal is 3 times the number of tags that occur, as
\* declared, inside the lower-cased user intent; an empty intent gives 0.
IntentSignalPerTag ==
  Returned =>
    LET lowered == LowerCased(userIntent)
        P(entry, computed) ==
          /\ IntentPart(entry, computed) =
               3 * Cardinality({q \in 1..Len(entry.tags) :
                                  IsSubstring(entry.tags[q], lowered)})
          /\ userIntent = <<>> => IntentPart(entry, computed) = 0
    IN  ForEveryEntry(P)

\* "REST Api Testing" contains, lower-cased, the tags "api" and "rest" of
\* api-architect.
IntentSignalPerTagWitness ==
  /\ Returned
  /\ userIntent = sApiTesting
  /\ IntentPart(AGENT_REGISTRY[AgentNamed("api-architect")],
                agentScores[AgentNamed("api-architect")]) = 6

\* C9: with the shipped registries (every tag is lower-case) the letter case
\* of the user intent changes neither a score nor a returned list.
IntentCaseInsensitive ==
  Returned =>
    /\ SameOutcomeFor(techStack, UpperCased(userIntent))
    /\ SameOutcomeFor(techStack, LowerCased(userIntent))
    /\ LET P(entry, computed) ==
             \A q \in 1..Len(entry.tags) : LowerCased(entry.tags[q]) = entry.tags[q]
       IN  ForEveryEntry(P)

\* A mixed-case intent whose lower-cased form hits tags.
IntentCaseInsensitiveWitness ==
  /\ Returned
  /\ userIntent = sApiTesting
  /\ UpperCased(userIntent) # userIntent
  /\ LowerCased(userIntent) # userIntent
  /\ \E k \in AgentIds : IntentPart(AGENT_REGISTRY[k], agentScores[k]) > 0
  /\ \E k \in SkillIds : IntentPart(SKILL_REGISTRY[k], skillScores[k]) > 0

\* The request {projectType: "api", techStack: ["TypeScript"], userIntent: ""}.
ApiScenario ==
  /\ projectType = "api"
  /\ techStack = <<sTypeScript>>
  /\ userIntent = <<>>

\* A wildcard priority-3 agent without a tech match.
WildcardNicheAgent(k) ==
  /\ IsWildcard(AGENT_REGISTRY[k])
  /\ AGENT_REGISTRY[k].priority = 3
  /\ TechPart(AGENT_REGISTRY[k], agentScores[k]) = 0

PositionIn(list, x) == CHOOSE i \in 1..Len(list) : list[i] = x

\* C10 as stated: for the API scenario with caps 5 and 5, api-architect is
\* in the returned agents and precedes every wildcard priority-3 agent
\* without a tech match.
ApiArchitectReturned ==
  (Returned /\ ApiScenario /\ maxAgents = 5 /\ maxSkills = 5) =>
    /\ AgentNamed("api-architect") \in Range(agents)
    /\ \A k \in AgentIds :
         (WildcardNicheAgent(k) /\ k \in Range(agents)) =>
            PositionIn(agents, AgentNamed("api-architect")) < PositionIn(agents, k)

\* C10 amended: for the API scenario api-architect scores strictly more
\* than every wildcard priority-3 agent without a tech match, so that none
\* of them is returned unless api-architect is returned before it; with
\* maxAgents = 5 the list is typescript-mcp-expert, plan, planner,
\* context-architect, repo-architect and holds neither.
ApiArchitectOutranks ==
  (Returned /\ ApiScenario) =>
    /\ \A k \in AgentIds :
         WildcardNicheAgent(k) =>
           /\ agentScores[AgentNamed("api-architect")] > agentScores[k]
           /\ k \in Range(agents) =>
                /\ AgentNamed("api-architect") \in Range(agents)
                /\ PositionIn(agents, AgentNamed("api-architect")) < PositionIn(agents, k)
    /\ maxAgents = 5 =>
         agents = <<AgentNamed("typescript-mcp-expert"), AgentNamed("plan"),
                    AgentNamed("planner"), AgentNamed("context-architect"),
                    AgentNamed("repo-architect")>>

\* The API scenario has returned with caps 5 and 5; api-architect scores 16,
\* there are wildcard priority-3 agents without a tech match.
ApiArchitectOutranksWitness ==
  /\ Returned
  /\ ApiScenario
  /\ maxAgents = 5 /\ maxSkills = 5
  /\ agentScores[AgentNamed("api-architect")] = 16
  /\ AgentNamed("api-architect") \notin Range(agents)
  /\ \E k \in AgentIds : WildcardNicheAgent(k) /\ agentScores[k] = 12

\* The project type of the request is named by no entry of either registry.
UnnamedProjectType ==
  /\ \A k \in AgentIds : projectType \notin Range(AGENT_REGISTRY[k].relevantProjectTypes)
  /\ \A k \in SkillIds : projectType \notin Range(SKILL_REGISTRY[k].relevantProjectTypes)

\* The request {projectType: "unknown-type", techStack: [], userIntent: "",
\* maxAgents: 100, maxSkills: 100}.
UnknownTypeScenario ==
  /\ projectType = "unknown-type"
  /\ techStack = <<>>
  /\ userIntent = <<>>
  /\ maxAgents = 100 /\ maxSkills = 100

\* list holds every entry of the registry exactly once.
HoldsEveryEntry(list, registry) ==
  /\ Len(list) = Len(registry)
  /\ Range(list) = 1..Len(registry)

\* list is ordered by priority alone, ties in declaration order.
OrderedByPriority(list, registry) ==
  \A i, j \in 1..Len(list) :
     i < j => \/ registry[list[i]].priority < registry[list[j]].priority
              \/ /\ registry[list[i]].priority = registry[list[j]].priority
                 /\ list[i] < list[j]

\* list has the wildcard entries first, each group is ordered by priority,
\* ties in declaration order.
OrderedByWildcardThenPriority(list, registry) ==
  \A i, j \in 1..Len(list) :
     i < j =>
       LET a == registry[list[i]]
           b == registry[list[j]]
       IN  \/ IsWildcard(a) /\ ~IsWildcard(b)
           \/ /\ IsWildcard(a) = IsWildcard(b)
              /\ \/ a.priority < b.priority
                 \/ a.priority = b.priority /\ list[i] < list[j]

\* C11 as stated: the unknown-type request returns every entry of both
\* registries ordered purely by priority (all priority-1 entries before all
\* priority-2 entries before all priority-3 entries), ties in declaration
\* order.
UnknownTypeOrderedByPriority ==
  (Returned /\ UnknownTypeScenario) =>
    /\ HoldsEveryEntry(agents, AGENT_REGISTRY)
    /\ HoldsEveryEntry(skills, SKILL_REGISTRY)
    /\ OrderedByPriority(agents, AGENT_REGISTRY)
    /\ OrderedByPriority(skills, SKILL_REGISTRY)

\* C11 amended: the unknown-type request returns every entry of both
\* registries ordered by score, which is the wildcard bonus plus the
\* priority bonus: all wildcard entries (16, 14, 12) before all entries that
\* name project types (6, 4, 2), each group by priority, ties in declaration
\* order.
UnknownTypeOrderedByScore ==
  (Returned /\ UnknownTypeScenario) =>
    /\ HoldsEveryEntry(agents, AGENT_REGISTRY)
    /\ HoldsEveryEntry(skills, SKILL_REGISTRY)
    /\ OrderedByWildcardThenPriority(agents, AGENT_REGISTRY)
    /\ OrderedByWildcardThenPriority(skills, SKILL_REGISTRY)

\* The unknown-type request has returned, and the wildcard priority-3 agent
\* devils-advocate is ahead of the priority-1 agent api-architect.
UnknownTypeOrderedByScoreWitness ==
  /\ Returned
  /\ UnknownTypeScenario
  /\ Len(agents) = Len(AGENT_REGISTRY)
  /\ AGENT_REGISTRY[AgentNamed("devils-advocate")].priority = 3
  /\ AGENT_REGISTRY[AgentNamed("api-architect")].priority = 1
  /\ PositionIn(agents, AgentNamed("devils-advocate"))
       < PositionIn(agents, AgentNamed("api-architect"))

\* C12 as stated: for a project type that no entry names, an empty tech
\* stack and an empty intent, every entry scores exactly its priority bonus
\* (4 - priority) * 2.
UnnamedTypeScoresAtFloor ==
  (Returned /\ UnnamedProjectType /\ techStack = <<>> /\ userIntent = <<>>) =>
    /\ \A k \in AgentIds : agentScores[k] = (4 - AGENT_REGISTRY[k].priority) * 2
    /\ \A k \in SkillIds : skillScores[k] = (4 - SKILL_REGISTRY[k].priority) * 2

\* C12 amended: for such a request every entry that names project types
\* scores exactly its priority bonus (4 - priority) * 2, and every wildcard
\* entry scores that bonus plus 10.
UnnamedTypeScoresFloorOrWildcard ==
  (Returned /\ UnnamedProjectType /\ techStack = <<>> /\ userIntent = <<>>) =>
    LET P(entry, computed) ==
          computed = (4 - entry.priority) * 2 + (IF IsWildcard(entry) THEN 10 ELSE 0)
    IN  ForEveryEntry(P)

\* Such a request has returned: api-architect sits on its floor of 6 and the
\* wildcard agent plan, of the same priority, has 16.
UnnamedTypeScoresFloorOrWildcardWitness ==
  /\ Returned
  /\ UnnamedProjectType
  /\ techStack = <<>> /\ userIntent = <<>>
  /\ agentScores[AgentNamed("api-architect")] = 6
  /\ agentScores[AgentNamed("plan")] = 16

(***************************************************************************)
(* Vocabulary of the call properties                                       *)
(***************************************************************************)
RecommendCalled == pc = "call" /\ op = "recommend"
Searched        == pc = "return" /\ op = "search"
Listed          == pc = "return" /\ op = "listCategories"

\* The positions 1, 2, ..., n in order: a whole registry, nothing left out.
Whole(registry) == [k \in 1..Len(registry) |-> k]

\* A list of positions in increasing order: declaration order, no repeats.
InDeclarationOrder(list) ==
  \A p \in 1..(Len(list) - 1) : list[p] < list[p + 1]

ContainsCaseInsensitive(entry, text) ==
  LET t == LowerCased(text)
  IN  \/ IsSubstring(t, LowerCased(entry.name))
      \/ IsSubstring(t, LowerCased(entry.description))
      \/ \E k \in 1..Len(entry.tags) : IsSubstring(t, LowerCased(entry.tags[k]))
      \/ \E k \in 1..Len(entry.categories) :
           IsSubstring(t, LowerCased(entry.categories[k]))

\* The list is the registry filtered by containment of the text.
FilteredBy(list, registry, text) ==
  /\ InDeclarationOrder(list)
  /\ \A k \in 1..Len(registry) :
       (k \in Range(list)) <=> ContainsCaseInsensitive(registry[k], text)

\* The lists that a search for the given text produces.
SameSearchFor(text) ==
  /\ searchRegistry(AGENT_REGISTRY, toLowerCase(text)) = agents
  /\ searchRegistry(SKILL_REGISTRY, toLowerCase(text)) = skills

\* C14: searchAgentSkills(query) returns, for each catalog, exactly the
\* entries whose name, description, some tag or some category contains the
\* query case-insensitively, in declaration order, unranked and untruncated;
\* the query in upper case and in lower case returns the same lists.
SearchIsFilter ==
  Searched =>
    /\ FilteredBy(agents, AGENT_REGISTRY, query)
    /\ FilteredBy(skills, SKILL_REGISTRY, query)
    /\ SameSearchFor(UpperCased(query))
    /\ SameSearchFor(LowerCased(query))

SearchIsFilterWitness ==
  /\ Searched
  /\ query = sReviewMixed
  /\ Len(agents) > 1
  /\ Len(agents) < Len(AGENT_REGISTRY)
  /\ AgentNamed("arch") \in Range(agents)
  /\ AgentNamed("gem-reviewer") \in Range(agents)

\* C15: searchAgentSkills("") returns the entire catalog: every agent and
\* every skill, in declaration order, nothing filtered out.
SearchEmptyReturnsAll ==
  (Searched /\ query = <<>>) =>
    /\ agents = Whole(AGENT_REGISTRY)
    /\ skills = Whole(SKILL_REGISTRY)
    /\ summary.agentCount = Len(AGENT_REGISTRY)
    /\ summary.skillCount = Len(SKILL_REGISTRY)

SearchEmptyReturnsAllWitness ==
  /\ Searched
  /\ query = <<>>
  /\ Len(agents) = 50
  /\ Len(skills) = 42

\* C16 as stated: searchAgentSkills("docker") returns the skill
\* multi-stage-dockerfile and the agent platform-sre-kubernetes.
SearchDockerFindsBoth ==
  (Searched /\ query = sDocker) =>
    /\ SkillNamed("multi-stage-dockerfile") \in Range(skills)
    /\ AgentNamed("platform-sre-kubernetes") \in Range(agents)

\* The text is one of the entry's tech keywords, letter case disregarded.
HasTechKeyword(entry, text) ==
  \E k \in 1..Len(entry.techKeywords) :
     LowerCased(entry.techKeywords[k]) = LowerCased(text)

\* C16: searchAgentSkills("docker") returns the skills
\* multi-stage-dockerfile and containerize-aspnetcore and no agent: the
\* agent platform-sre-kubernetes carries "Docker" only as a tech keyword,
\* which the search does not look at.
SearchDockerFindsSkillsOnly ==
  (Searched /\ query = sDocker) =>
    /\ skills = <<SkillNamed("multi-stage-dockerfile"),
                  SkillNamed("containerize-aspnetcore")>>
    /\ agents = <<>>
    /\ summary.agentList = "none"
    /\ HasTechKeyword(AGENT_REGISTRY[AgentNamed("platform-sre-kubernetes")], sDocker)
    /\ ~ContainsCaseInsensitive(AGENT_REGISTRY[AgentNamed("platform-sre-kubernetes")],
                                sDocker)

SearchDockerFindsSkillsOnlyWitness ==
  /\ Searched
  /\ query = sDocker
  /\ Len(skills) = 2
  /\ agents = <<>>

\* a comes before b in lexicographic order by code unit: at the first
\* position where they differ a has the smaller character, or a is a proper
\* prefix of b.
Precedes(a, b) ==
  LET shorter == Min(Len(a), Len(b))
      common  == CHOOSE m \in 0..shorter :
                   /\ SubSeq(a, 1, m) = SubSeq(b, 1, m)
                   /\ m < shorter => a[m + 1] # b[m + 1]
  IN  IF common = shorter THEN Len(a) < Len(b)
      ELSE CodeUnit[a[common + 1]] < CodeUnit[b[common + 1]]

\* The categories carried by at least one entry of the registry.
CategoriesInUse(registry) ==
  UNION {Range(registry[k].categories) : k \in 1..Len(registry)}

\* The list has no duplicates, is in ascending order and holds exactly the
\* categories in use in the registry.
CategoryListOf(list, registry) ==
  /\ \A i, j \in 1..Len(list) : i # j => list[i] # list[j]
  /\ \A i \in 1..(Len(list) - 1) : Precedes(list[i], list[i + 1])
  /\ Range(list) = CategoriesInUse(registry)

\* C17: listCategories() returns two lists, each without duplicates and in
\* ascending lexicographic order; agentCategories holds exactly the
\* categories carried by some agent entry, skillCategories exactly those
\* carried by some skill entry.
CategoriesListed ==
  Listed =>
    /\ CategoryListOf(agentCategories, AGENT_REGISTRY)
    /\ CategoryListOf(skillCategories, SKILL_REGISTRY)

CategoriesListedWitness ==
  /\ Listed
  /\ Len(agentCategories) = 15
  /\ Len(skillCategories) = 14
  /\ \E c \in Range(agentCategories) : c \in Range(skillCategories)
  /\ \E c \in Range(agentCategories) : c \notin Range(skillCategories)
  /\ \E c \in Range(skillCategories) : c \notin Range(agentCategories)

\* The data-model invariants of one catalog.
WellFormedCatalog(registry) ==
  /\ \A j, k \in 1..Len(registry) : j # k => registry[j].id # registry[k].id
  /\ \A k \in 1..Len(registry) : registry[k].categories # <<>>
  /\ \A k \in 1..Len(registry) : registry[k].priority \in {1, 2, 3}

\* C18: the shipped catalogs satisfy the data-model invariants: within each
\* catalog every id is unique, every categories list is non-empty and every
\* priority is 1, 2 or 3.
CatalogsWellFormed ==
  /\ WellFormedCatalog(agentRegistry)
  /\ WellFormedCatalog(skillRegistry)

CatalogsWellFormedWitness ==
  /\ pc = "return"
  /\ Len(agentRegistry) = 50
  /\ Len(skillRegistry) = 42
  /\ \A p \in {1, 2, 3} : \E k \in AgentIds : agentRegistry[k].priority = p
  /\ \E a \in AgentIds, s \in SkillIds : agentRegistry[a].id = skillRegistry[s].id

\* The result that the current call produces when it is the first call of
\* the process, made on the registries as declared.
ResultOfFirstCall ==
  IF op = "recommend" THEN
    LET firstAgentScores == ScoresFor(AGENT_REGISTRY, techStack, userIntent)
        firstSkillScores == ScoresFor(SKILL_REGISTRY, techStack, userIntent)
        firstAgents      == rank(firstAgentScores, maxAgents)
        firstSkills      == rank(firstSkillScores, maxSkills)
    IN  <<firstAgentScores, firstSkillScores, firstAgents, firstSkills,
          recommendSummary(projectType, techStack,
                           AGENT_REGISTRY, firstAgents, SKILL_REGISTRY, firstSkills),
          <<>>, <<>>>>
  ELSE IF op = "search" THEN
    LET firstAgents == searchRegistry(AGENT_REGISTRY, toLowerCase(query))
        firstSkills == searchRegistry(SKILL_REGISTRY, toLowerCase(query))
    IN  <<<<>>, <<>>, firstAgents, firstSkills,
          searchSummary(query, AGENT_REGISTRY, firstAgents, SKILL_REGISTRY, firstSkills),
          <<>>, <<>>>>
  ELSE
    <<<<>>, <<>>, <<>>, <<>>, <<>>,
      categoriesSorted(AGENT_REGISTRY), categoriesSorted(SKILL_REGISTRY)>>

SequentialScore(registry, k) == ScoresFor(registry, techStack, userIntent)[k]

Prefix(list, k) == SubSeq(list, 1, Min(k, Len(list)))

\* Smaller caps that a returned list is compared under.
SmallerCaps(max) == {k \in {0, 1, 5, max - 1} : 0 <= k /\ k <= max}

\* C29: truncation is a prefix operation: with project type, tech stack and
\* intent fixed, the agents list for a cap k <= maxAgents is the first k
\* elements of the list for maxAgents, and likewise for the skills.
TruncationIsPrefix ==
  Returned =>
    /\ \A k \in SmallerCaps(maxAgents) : rank(agentScores, k) = Prefix(agents, k)
    /\ \A k \in SmallerCaps(maxSkills) : rank(skillScores, k) = Prefix(skills, k)

TruncationIsPrefixWitness ==
  /\ Returned
  /\ maxAgents = 100
  /\ techStack = <<sTypeScript>>
  /\ Len(agents) = 50
  /\ agents[1] # 1
  /\ Prefix(agents, 5) # agents

\* C30: an empty-string item in techStack matches every tech keyword, so
\* with techStack = [""] the tech signal of each entry is 5 times the number
\* of its tech keywords, whereas with techStack = [] it is 0 for every entry.
EmptyStackItemMatchesAll ==
  Returned =>
    /\ techStack = << <<>> >> =>
         LET P(entry, computed) ==
               TechPart(entry, computed) = 5 * Len(entry.techKeywords)
         IN  ForEveryEntry(P)
    /\ techStack = <<>> =>
         LET Q(entry, computed) == TechPart(entry, computed) = 0
         IN  ForEveryEntry(Q)

EmptyStackItemMatchesAllWitness ==
  /\ Returned
  /\ techStack = << <<>> >>
  /\ \E k \in AgentIds :
       /\ Len(AGENT_REGISTRY[k].techKeywords) >= 2
       /\ TechPart(AGENT_REGISTRY[k], agentScores[k]) >= 10
  /\ \E k \in AgentIds : AGENT_REGISTRY[k].techKeywords = <<>>
(***************************************************************************)
(* generateAgentSkills and the caps                                        *)
(***************************************************************************)
Generated == pc = "return" /\ op = "generate"

CapCalled == pc = "call" /\ op \in {"recommend", "generate"}

\* The cap a call ends up with: the one it passes, the function's own
\* default where it passes none.
CapInForce(name, given, ofRecommend, ofGenerate) ==
  IF name \notin omitted THEN given
  ELSE IF op = "recommend" THEN ofRecommend ELSE ofGenerate

\* Number of entries a ranking under the cap returns.
Kept(scores, cap) ==
  Min(cap, Cardinality({k \in 1..Len(scores) : scores[k] > 0}))

\* C21: a default cap applies only where the call passes none: then
\* recommendAgentSkills returns at most 10 agents and 15 skills and
\* generateAgentSkills at most 8 and 12; a cap that is passed, 0 included,
\* is used as passed by both, and is not rebound.
DefaultCapsOnlyWhenAbsent ==
  [][CapCalled =>
       /\ Len(agents') = Kept(agentScores', CapInForce("maxAgents", maxAgents, 10, 8))
       /\ Len(skills') = Kept(skillScores', CapInForce("maxSkills", maxSkills, 15, 12))
       /\ "maxAgents" \notin omitted => maxAgents' = maxAgents
       /\ "maxSkills" \notin omitted => maxSkills' = maxSkills]_vars

DefaultCapsOnlyWhenAbsentWitness ==
  /\ Generated
  /\ {"maxAgents", "maxSkills"} \subseteq omitted
  /\ Len(agents) = 8
  /\ Len(skills) = 12
  /\ Kept(agentScores, 100) > 10
  /\ Kept(skillScores, 100) > 15
Paths(fs) == {fs[k].relativePath : k \in 1..Len(fs)}

StartsWith(path, prefix) ==
  Len(path) >= Len(prefix) /\ SubSeq(path, 1, Len(prefix)) = prefix

SkillPaths(fs) == {p \in Paths(fs) : StartsWith(p, pSkillsDir)}
AgentPaths(fs) == {p \in Paths(fs) : StartsWith(p, pAgentsDir)}

\* C22: when generateAgentSkills is given options.skillIds or
\* options.agentIds, the skill files and the agent files it generates are
\* exactly the ones of the listed ids.
ListedIdsAreInstalled ==
  Generated =>
    /\ "skillIds" \notin omitted =>
         SkillPaths(files) = {skillFile([id |-> id]).relativePath : id \in Range(skillIds)}
    /\ "agentIds" \notin omitted =>
         AgentPaths(files) = {agentFile([id |-> id]).relativePath : id \in Range(agentIds)}
(***************************************************************************)
(* The workspace tools                                                     *)
(***************************************************************************)
\* The file system is well formed: nothing is both a file and a directory,
\* and everything lies in directories.
DiskOK ==
  /\ DOMAIN disk.files \cap disk.dirs = {}
  /\ \A p \in DOMAIN disk.files \cup disk.dirs : ancestors(p) \subseteq disk.dirs
InitializeCalled == pc = "call" /\ op = "initialize"
Initialized == pc = "return" /\ op = "initialize"
PreviewCalled == pc = "call" /\ op = "preview"
Previewed == pc = "return" /\ op = "preview"
ValidateCalled == pc = "call" /\ op = "validate"
Validated == pc = "return" /\ op = "validate"

Forced == "force" \notin omitted /\ force

\* The content generated for a path.
ContentFor(fs, path) ==
  fs[CHOOSE k \in 1..Len(fs) : fs[k].relativePath = path].content

\* C23: overwrite protection of initialize_workspace: with force absent or
\* false, a file that exists at a target path is not written: its content
\* after the call is its content before, and its path is reported as
\* skipped; with force = true the file has the generated content after the
\* call and its path is reported as written.
OverwriteProtection ==
  [][InitializeCalled =>
       \A path \in Paths(files') :
         isFile(disk, path) =>
           IF Forced
             THEN /\ disk'.files[path] = ContentFor(files', path)
                  /\ path \in Range(written')
                  /\ path \notin Range(skipped')
             ELSE /\ disk'.files[path] = disk.files[path]
                  /\ path \in Range(skipped')
                  /\ path \notin Range(written')]_vars

OverwriteProtectionWitness ==
  /\ Initialized
  /\ "force" \notin omitted
  /\ ~force
  /\ Range(skipped) = {pCopilotInstructions, pSettings, pChangelogReadme}
  /\ \A path \in Range(skipped) : disk.files[path] = existingFile
  /\ disk.files[pCodeGeneration] = <<"generateCodeGenInstructions">>
  /\ errors = <<>>
AllExpectedPresent(report) ==
  /\ Len(report.items) = Len(EXPECTED_FILES)
  /\ \A k \in 1..Len(report.items) : report.items[k].status = "present"

\* An initialize_workspace call has completed on the workspace, the last
\* one with no per-file error.
InitializedWithNoError ==
  /\ Len(written) + Len(skipped) > 0
  /\ errors = <<>>

\* C25: when initialize_workspace has completed with no per-file error,
\* whatever the parameters, the files in place and force, a validate_workspace
\* that follows reports every expected file present, isInitialized = true
\* and completeness = 100.
ValidationRecognisesInitialization ==
  [][(ValidateCalled /\ InitializedWithNoError) =>
       /\ ~reply'.isError
       /\ AllExpectedPresent(reply'.result)
       /\ reply'.result.isInitialized
       /\ reply'.result.completeness = 100]_vars

ValidationRecognisesInitializationWitness ==
  /\ Validated
  /\ InitializedWithNoError
  /\ pAdrReadme \in Range(skipped)
  /\ isDirectory(disk, pAdrReadme)
  /\ reply.result.completeness = 100
  /\ reply.result.isInitialized

\* C26: the created-files count and list that initialize_workspace reports
\* (filesCreated, generatedFiles, and the summary that renders them) are
\* the number and the paths of the files that the call wrote.
ReportsFilesWritten ==
  (Initialized /\ ~reply.isError) =>
    /\ reply.filesCreated = Len(written)
    /\ reply.generatedFiles = written
    /\ reply.summary.count = Len(written)
    /\ reply.summary.list = written

\* C27: in the write loop of initialize_workspace every generated file ends
\* in exactly one of written, skipped and errors, a failure of mkdirSync or
\* writeFileSync for one file leaves the later files processed, and the
\* reply is not an error.
ErrorPaths == {errors[k][1] : k \in 1..Len(errors)}

EveryFileHasOneOutcome ==
  Initialized =>
    /\ ~reply.isError
    /\ Len(written) + Len(skipped) + Len(errors) = Len(files)
    /\ Range(written) \cup Range(skipped) \cup ErrorPaths = Paths(files)
    /\ Range(written) \cap Range(skipped) = {}
    /\ Range(written) \cap ErrorPaths = {}
    /\ Range(skipped) \cap ErrorPaths = {}
    /\ reply.skipped = skipped
    /\ reply.errors = errors

EveryFileHasOneOutcomeWitness ==
  /\ Initialized
  /\ Forced
  /\ \E k \in 1..Len(errors) : errors[k][2] = "mkdirSync"
  /\ \E k \in 1..Len(errors) : errors[k] = <<pAdrReadme, "writeFileSync">>
  /\ files[Len(files)].relativePath \in Range(written)
  /\ files[Len(files) - 1].relativePath \in Range(written)

\* C28: no two files that collectFiles returns have the same relativePath:
\* the skill and agent files have paths of their own, which are not those
\* of the index, the docs READMEs, the changelog or the work log either.
Collected == pc = "return" /\ op \in {"initialize", "preview"}

PathsAreDistinct ==
  Collected =>
    /\ \A j, k \in 1..Len(files) :
         j # k => files[j].relativePath # files[k].relativePath
    /\ (SkillPaths(files) \cup AgentPaths(files))
         \cap {pSkillsIndex, pWorkLogsReadme, pTroubleshootingReadme,
               pChangelogReadme, pAdrReadme,
               files[Len(files)].relativePath,
               files[Len(files) - 1].relativePath} = {}

PathsAreDistinctWitness ==
  /\ Collected
  /\ workspaceName = sReadme
  /\ files[Len(files) - 1].relativePath
       = pChangelogDir \o <<"r", "e", "a", "d", "m", "e">> \o pMd
  /\ Cardinality(SkillPaths(files)) = 12
  /\ Cardinality(AgentPaths(files)) = 8
  /\ Cardinality(Paths(files)) = Len(files)

====
